---- MODULE Spec2Model ----
(***************************************************************************)
(* Model of the exesql executors (run_mysql, run_oracle, run_sqlite,       *)
(* run_sqlserver + sqlite2sqlserver, run_duckdb, run_postgres) and of the  *)
(* table-reference rewriters (prefix_table_names, rewrite_sql_for_oracle). *)
(*                                                                         *)
(* Spec        one run of one executor over one input batch                *)
(* FairSpec    Spec with weak fairness of every step (workers that can     *)
(*             proceed do proceed)                                         *)
(* SpecRewrite the rewriters applied once and twice to one SQL text        *)
(***************************************************************************)
EXTENDS Integers, Sequences, FiniteSets, TLC

\* ------------------------------------------------------------------ bounds
MaxTasks == 2
NumWorkers == 2
MaxLexemes == 3
MaxLines == 2
MaxRows == 2
MaxSrcRows == 2
MaxRuns == 2
MaxTypeParts == 2

DbIds == {"A", "B"}
Engines == {"mysql", "oracle", "sqlite", "sqlserver", "duckdb", "postgres"}
Workers == 1..NumWorkers

VARIABLES
    engine,            \* which executor script runs
    questions,         \* the parsed input batch, in file order
    dbState,           \* db_id -> "ok" | "missing" (no SQLite file) | "bad" (unreadable, unmigratable)
    pc,                \* position of the main routine
    pending,           \* tasks handed to the pool and not yet taken by a worker
    running,           \* worker -> the task it runs, or Idle
    hung,              \* workers blocked in a call that never returns
    migration_results, \* results of phase 1, in completion order
    migrated,          \* db_id -> "no" | "ok" | "failed"
    all_results,       \* results of the execution phase, in completion order
    pos,               \* loop position of the sequential executors
    started,           \* indices for which an execution worker was started
    executed,          \* indices whose query was sent to the engine
    behaved,           \* index -> how its query behaved on the engine
    output,            \* the lines of the output file
    written,           \* whether the output file was written
    rw_engine, rw_sql, rw_db, rw_once, rw_twice, rw_pc,  \* rewriter harness
    sc_pc,             \* position of compute_exec_score
    gold_data,         \* index -> entry read from the gold file
    pred_data,         \* index -> entry read from the predicted file
    sc_line,           \* the line read last
    sc_n,              \* lines read from the file being read
    match_count,       \* matched entries
    total,             \* gold entries
    sc_matched,        \* the indices counted as matched
    score,             \* match_count / total, as numerator and denominator
    cmp_gold, cmp_pred, cmp_pc, cmp_match,  \* scorer on two one-line files
    conn,              \* worker -> the engine connection its task holds
    orphans,           \* connections of timed-out tasks that are still open
    qy,                \* one statement run against a migrated namespace
    nm,                \* two source tables and the target names they get
    lk,                \* a query text and the text run_sqlite executes for it
    api,               \* one call of send_api_request, attempt by attempt
    mg_engine,         \* target engine of the migrator
    mg_source,         \* table -> rows of the SQLite file, or NoTable
    mg_ns,             \* table -> committed rows in the namespace, or NoTable
    mg_prior,          \* the namespace before the first run
    mg_runs,           \* runs of the migrator so far
    mg_after1,         \* the namespace after the first run
    mg_status,         \* what the last run returned
    mg_failed,         \* tables whose bulk insert failed in the last run
    mg_cut,            \* tables loaded when the first run was killed, 0 if none
    ty_engine, ty_decl, ty_out, ty_pc       \* type mapping harness

exec_vars == <<engine, questions, dbState, pc, pending, running, hung,
               migration_results, migrated, all_results, pos, started,
               executed, behaved, output, written>>
rw_vars == <<rw_engine, rw_sql, rw_db, rw_once, rw_twice, rw_pc>>
sc_vars == <<sc_pc, gold_data, pred_data, sc_line, sc_n, match_count, total,
             sc_matched, score, cmp_gold, cmp_pred, cmp_pc, cmp_match>>
conn_vars == <<conn, orphans>>
qy_vars == <<qy>>
nm_vars == <<nm>>
lk_vars == <<lk>>
api_vars == <<api>>
mg_vars == <<mg_engine, mg_source, mg_ns, mg_prior, mg_runs, mg_after1, mg_status,
            mg_failed, mg_cut>>
ty_vars == <<ty_engine, ty_decl, ty_out, ty_pc>>
vars == <<exec_vars, conn_vars, rw_vars, sc_vars, mg_vars, ty_vars, qy_vars,
          nm_vars, lk_vars, api_vars>>

\* ------------------------------------------------------------- data shapes
Idle == [index |-> 0, db |-> "-"]

Task(i, d) == [index |-> i, db |-> d]

\* An injective sequence: the batch has unique indices.
UniqueIndices(q) ==
    \A a, b \in 1..Len(q) : a # b => q[a].index # q[b].index

Batches ==
    UNION { { q \in [1..n -> [index : 1..MaxTasks, db : DbIds]] : UniqueIndices(q) }
            : n \in 1..MaxTasks }

\* Query behaviours the engine can show: rows, an engine error, or a
\* statement that never returns on its own.
Outcomes == {"rows", "error", "slow"}

\* A result tuple of the pool executors: (index, status, data).
Result(i, s, d) == [index |-> i, status |-> s, data |-> d]

\* One physical line of the output file.
\*   kind "rec"  : index<TAB>payload
\*   kind "hdr"  : "Index <i>:"            (run_postgres error record)
\*   kind "err"  : "Error: <message>"      (run_postgres error record)
\*   kind "orig" : "Original SQL: ..."     (run_postgres error record)
\*   kind "mod"  : "Modified SQL: ..."     (run_postgres error record)
Line(k, i, e, m) == [kind |-> k, index |-> i, error |-> e, msg |-> m]

\* ---------------------------------------------------------------- messages
\* Messages are sequences of words; str-containment is checked on them.
RECURSIVE Contains(_, _)
Contains(hay, needle) ==
    IF Len(hay) < Len(needle) THEN FALSE
    ELSE IF SubSeq(hay, 1, Len(needle)) = needle THEN TRUE
    ELSE Contains(Tail(hay), needle)

MsgRows == <<"rows">>
MsgEngine == <<"engine", "error">>
MsgTimedOut == <<"Query", "timed", "out", "after", "N", "seconds.">>
MsgNotFound == <<"file", "not", "found">>
MsgMigrateExc == <<"migration", "exception">>

\* What the MySQL server may say when max_execution_time interrupts a query.
ServerTimeoutTexts ==
    { <<"interrupted,", "maximum", "statement", "execution", "time", "exceeded">>,
      <<"interrupted,", "maximum", "execution", "time", "exceeded">> }

\* ------------------------------------------------------ SQL text as chars
\* A SQL text is a sequence of one-character strings.
UpperAlpha == << "A", "B", "C", "D", "E", "F", "G", "H", "I", "J", "K", "L", "M",
                 "N", "O", "P", "Q", "R", "S", "T", "U", "V", "W", "X", "Y", "Z" >>
LowerAlpha == << "a", "b", "c", "d", "e", "f", "g", "h", "i", "j", "k", "l", "m",
                 "n", "o", "p", "q", "r", "s", "t", "u", "v", "w", "x", "y", "z" >>
Digits == {"0", "1", "2", "3", "4", "5", "6", "7", "8", "9"}

IndexIn(seq, c) ==
    IF \E k \in 1..Len(seq) : seq[k] = c
    THEN CHOOSE k \in 1..Len(seq) : seq[k] = c
    ELSE 0

\* str.upper() / str.lower(), one character at a time.
Upper(c) == IF IndexIn(LowerAlpha, c) > 0 THEN UpperAlpha[IndexIn(LowerAlpha, c)] ELSE c
Lower(c) == IF IndexIn(UpperAlpha, c) > 0 THEN LowerAlpha[IndexIn(UpperAlpha, c)] ELSE c
UpperSeq(s) == [k \in 1..Len(s) |-> Upper(s[k])]
LowerSeq(s) == [k \in 1..Len(s) |-> Lower(s[k])]

\* \w and [a-zA-Z0-9_] (the same set on ASCII text), \s, and the two quote
\* characters of the pattern: the double quote and the backtick. The backtick
\* cannot be written in a string here, so the element "BACKTICK" stands for it.
IsWord(c) == IndexIn(UpperAlpha, c) > 0 \/ IndexIn(LowerAlpha, c) > 0
             \/ c \in Digits \/ c = "_"
IsSpace(c) == c = " "
DQ == "\""
BQ == "BACKTICK"

\* The first position at or after j that holds no whitespace (\s+ is greedy).
RECURSIVE SkipSpaces(_, _)
SkipSpaces(s, j) ==
    IF j <= Len(s) /\ IsSpace(s[j]) THEN SkipSpaces(s, j + 1) ELSE j

\* The first position at or after j that holds no word character (\w+ is greedy).
RECURSIVE WordEnd(_, _)
WordEnd(s, j) ==
    IF j <= Len(s) /\ IsWord(s[j]) THEN WordEnd(s, j + 1) ELSE j

\* A keyword of the pattern at position i, under re.IGNORECASE.
KeywordAt(s, i, kw) ==
    /\ i + Len(kw) - 1 <= Len(s)
    /\ \A k \in 1..Len(kw) : Upper(s[i + k - 1]) = kw[k]

KwFROM == <<"F", "R", "O", "M">>
KwJOIN == <<"J", "O", "I", "N">>
KwUPDATE == <<"U", "P", "D", "A", "T", "E">>
KwINTO == <<"I", "N", "T", "O">>
KwDELETEFROM == <<"D", "E", "L", "E", "T", "E", " ", "F", "R", "O", "M">>
KwTABLE == <<"T", "A", "B", "L", "E">>
KwINSERTINTO == <<"I", "N", "S", "E", "R", "T", " ", "I", "N", "T", "O">>
KwVALUES == <<"V", "A", "L", "U", "E", "S">>

\* The alternation of each pattern, in its order.
keywords(eng) ==
    CASE eng = "duckdb" -> <<KwFROM, KwJOIN, KwUPDATE, KwINTO, KwDELETEFROM, KwTABLE>>
      [] eng = "postgres" -> <<KwFROM, KwJOIN, KwUPDATE, KwINTO, KwDELETEFROM, KwTABLE,
                               KwINSERTINTO, KwVALUES>>
      [] OTHER -> <<KwFROM, KwJOIN, KwUPDATE, KwINTO, KwTABLE>>

NoMatch == [ok |-> FALSE, start |-> 0, end |-> 0, keyword |-> <<>>,
            quote |-> <<>>, table |-> <<>>, quote2 |-> <<>>]

\* run_duckdb / run_postgres:  \b(KW)\s+([BQ DQ]?)(\w+)\2  at position i with
\* the keyword kw. end is the position after the match.
PrefixPatternAt(s, i, kw) ==
    LET j1 == i + Len(kw)                 \* after the keyword
        j2 == SkipSpaces(s, j1)           \* after \s+
        q  == IF j2 <= Len(s) /\ s[j2] \in {BQ, DQ} THEN <<s[j2]>> ELSE <<>>
        j3 == j2 + Len(q)                 \* after the optional quote
        j4 == WordEnd(s, j3)              \* after (\w+)
    IN  IF /\ (i = 1 \/ ~IsWord(s[i - 1]))            \* \b
           /\ KeywordAt(s, i, kw)
           /\ j2 > j1
           /\ j4 > j3
           /\ (q # <<>> => (j4 <= Len(s) /\ s[j4] = q[1]))   \* \2
        THEN [ok |-> TRUE, start |-> i, end |-> j4 + Len(q),
              keyword |-> SubSeq(s, i, j1 - 1), quote |-> q,
              table |-> SubSeq(s, j3, j4 - 1), quote2 |-> q]
        ELSE NoMatch

\* run_oracle:  (KW)\s+("?)([a-zA-Z0-9_]+)("?)  at position i with kw.
OraclePatternAt(s, i, kw) ==
    LET j1 == i + Len(kw)
        j2 == SkipSpaces(s, j1)
        q1 == IF j2 <= Len(s) /\ s[j2] = DQ THEN <<DQ>> ELSE <<>>
        j3 == j2 + Len(q1)
        j4 == WordEnd(s, j3)
        q2 == IF j4 <= Len(s) /\ s[j4] = DQ THEN <<DQ>> ELSE <<>>
    IN  IF /\ KeywordAt(s, i, kw)
           /\ j2 > j1
           /\ j4 > j3
        THEN [ok |-> TRUE, start |-> i, end |-> j4 + Len(q2),
              keyword |-> SubSeq(s, i, j1 - 1), quote |-> q1,
              table |-> SubSeq(s, j3, j4 - 1), quote2 |-> q2]
        ELSE NoMatch

PatternAt(eng, s, i, kw) ==
    IF eng = "oracle" THEN OraclePatternAt(s, i, kw) ELSE PrefixPatternAt(s, i, kw)

\* The match of the pattern that starts at position i, if any: the first
\* alternative, in the order of the alternation, with which it matches.
RECURSIVE MatchFrom(_, _, _, _)
MatchFrom(eng, s, i, k) ==
    IF k > Len(keywords(eng)) THEN NoMatch
    ELSE IF PatternAt(eng, s, i, keywords(eng)[k]).ok
         THEN PatternAt(eng, s, i, keywords(eng)[k])
         ELSE MatchFrom(eng, s, i, k + 1)

MatchAt(eng, s, i) == MatchFrom(eng, s, i, 1)

\* The text of a match: match.group(0).
Group0(s, m) == SubSeq(s, m.start, m.end - 1)

\* run_duckdb.prefix_table_names.replacer
duckdb_replacer(s, m, db_id) ==
    IF \E k \in 1..Len(m.table) : m.table[k] = "."
    THEN Group0(s, m)
    ELSE m.keyword \o <<" ">> \o db_id \o <<".">> \o m.quote \o m.table \o m.quote

\* run_postgres.prefix_table_names.replacer (schema_name and table lowered)
postgres_replacer(s, m, schema_name) ==
    IF \E k \in 1..Len(m.table) : m.table[k] = "."
    THEN Group0(s, m)
    ELSE m.keyword \o <<" ">> \o LowerSeq(schema_name) \o <<".">>
         \o m.quote \o LowerSeq(m.table) \o m.quote

\* run_oracle.rewrite_sql_for_oracle.replacer: quote1 and quote2 are read
\* and not used; the keyword is followed directly by the quoted name.
oracle_replacer(s, m, db_id) ==
    m.keyword \o <<DQ>> \o UpperSeq(db_id) \o <<"_">> \o UpperSeq(m.table) \o <<DQ>>

replacer(eng, s, m, db_id) ==
    CASE eng = "duckdb" -> duckdb_replacer(s, m, db_id)
      [] eng = "postgres" -> postgres_replacer(s, m, db_id)
      [] OTHER -> oracle_replacer(s, m, db_id)

\* pattern.sub(replacer, sql): the matches from left to right, not
\* overlapping, each replaced; the text between them copied.
RECURSIVE PatternSub(_, _, _, _)
PatternSub(eng, s, i, db_id) ==
    IF i > Len(s) THEN <<>>
    ELSE IF MatchAt(eng, s, i).ok
         THEN replacer(eng, s, MatchAt(eng, s, i), db_id)
              \o PatternSub(eng, s, MatchAt(eng, s, i).end, db_id)
         ELSE <<s[i]>> \o PatternSub(eng, s, i + 1, db_id)

\* prefix_table_names (run_duckdb, run_postgres) and rewrite_sql_for_oracle.
rewrite(eng, sql, db_id) == PatternSub(eng, sql, 1, db_id)

\* The matches that pattern.sub finds in s, from position i on.
RECURSIVE MatchesFrom(_, _, _)
MatchesFrom(eng, s, i) ==
    IF i > Len(s) THEN <<>>
    ELSE IF MatchAt(eng, s, i).ok
         THEN <<MatchAt(eng, s, i)>> \o MatchesFrom(eng, s, MatchAt(eng, s, i).end)
         ELSE MatchesFrom(eng, s, i + 1)

\* ------------------------------------------------- result files and values
\* A scalar of a result list, as it is written in the file:
\*   kind "num"  : a number written bare, e.g. 3 or 3.00000000
\*   kind "str"  : a quoted string, text is what is between the quotes
\*   kind "none" : the name None
\*   kind "call" : something that is not a literal, e.g. Decimal('3')
Num(t) == [kind |-> "num", text |-> t]
Str(t) == [kind |-> "str", text |-> t]
NoneLit == [kind |-> "none", text |-> <<"N", "o", "n", "e">>]
CallLit(t) == [kind |-> "call", text |-> t]

\* An item of a result list: a tuple of scalars, or one scalar written bare.
Tup(vals) == [tuple |-> TRUE, vals |-> vals]
Bare(v) == [tuple |-> FALSE, vals |-> <<v>>]

\* The second field of a line:
\*   kind "list" : [item, item, ...]
\*   kind "atom" : a literal that is no sequence, e.g. 5 or None
\*   kind "text" : text that is no Python literal, e.g. Error: ...
ListField(items) == [kind |-> "list", items |-> items, text |-> <<>>]
AtomField(v) == [kind |-> "atom", items |-> <<v>>, text |-> <<>>]
TextField(t) == [kind |-> "text", items |-> <<>>, text |-> t]

\* A line of a result file: index<TAB>field, or a line without a tab.
ResultLine(i, f) == [fields |-> 2, index |-> i, field |-> f]
NoTabLine == [fields |-> 1, index |-> 0, field |-> TextField(<<>>)]

\* A number is its integer part and its fraction in units of 10^-9.
Scale == 1000000000

DigitSeq == <<"0", "1", "2", "3", "4", "5", "6", "7", "8", "9">>
DigitVal(c) == IndexIn(DigitSeq, c) - 1

RECURSIVE Pow10(_)
Pow10(k) == IF k = 0 THEN 1 ELSE 10 * Pow10(k - 1)

\* The value of a string of digits.
RECURSIVE DigitsVal(_)
DigitsVal(d) ==
    IF d = <<>> THEN 0
    ELSE 10 * DigitsVal(SubSeq(d, 1, Len(d) - 1)) + DigitVal(d[Len(d)])

\* str.strip()
RECURSIVE Strip(_)
Strip(t) ==
    IF t = <<>> THEN <<>>
    ELSE IF IsSpace(t[1]) THEN Strip(Tail(t))
    ELSE IF IsSpace(t[Len(t)]) THEN Strip(SubSeq(t, 1, Len(t) - 1))
    ELSE t

\* float(): the text of a number, surrounded by whitespace or not, gives a
\* number; the text nan, in any case, gives the float that equals nothing;
\* any other text raises ValueError.
NotANumber == [ok |-> FALSE, nan |-> FALSE, ip |-> 0, fp |-> 0]
NaN == [ok |-> TRUE, nan |-> TRUE, ip |-> 0, fp |-> 0]

float(t) ==
    LET s == Strip(t)
        dot == IndexIn(s, ".")
        int == IF dot = 0 THEN s ELSE SubSeq(s, 1, dot - 1)
        frac == IF dot = 0 THEN <<>> ELSE SubSeq(s, dot + 1, Len(s))
        f9 == IF Len(frac) > 9 THEN SubSeq(frac, 1, 9) ELSE frac
    IN  IF LowerSeq(s) = <<"n", "a", "n">> THEN NaN
        ELSE IF /\ Len(int) + Len(frac) > 0
                /\ \A k \in 1..Len(int) : int[k] \in Digits
                /\ \A k \in 1..Len(frac) : frac[k] \in Digits
             THEN [ok |-> TRUE, nan |-> FALSE, ip |-> DigitsVal(int),
                   fp |-> DigitsVal(f9) * Pow10(9 - Len(f9))]
             ELSE NotANumber

\* A value after normalize_value: a rounded float, nan, or a stripped string.
FloatVal(ip, fp) == [type |-> "float", nan |-> FALSE, ip |-> ip, fp |-> fp, text |-> <<>>]
NanVal == [type |-> "float", nan |-> TRUE, ip |-> 0, fp |-> 0, text |-> <<>>]
StrVal(t) == [type |-> "str", nan |-> FALSE, ip |-> 0, fp |-> 0, text |-> t]

\* The fraction rounded to the nearest multiple of 10^-8, a tie to the even one.
round8_fraction(fp) ==
    LET q == fp \div 10
        r == fp % 10
    IN  IF r < 5 THEN 10 * q
        ELSE IF r > 5 THEN 10 * (q + 1)
        ELSE IF q % 2 = 0 THEN 10 * q ELSE 10 * (q + 1)

\* A rounding that keeps every digit.
round_exact(ip, fp) == FloatVal(ip, fp)

\* round(num, 8)
round8(ip, fp) ==
    IF round8_fraction(fp) = Scale THEN FloatVal(ip + 1, 0)
    ELSE FloatVal(ip, round8_fraction(fp))

FromFloat(f) == IF f.nan THEN NanVal ELSE round8(f.ip, f.fp)

\* normalize_value on a scalar that ast.literal_eval has produced.
normalize_value(x) ==
    CASE x.kind = "num" -> FromFloat(float(x.text))
      [] x.kind = "str" -> IF float(x.text).ok THEN FromFloat(float(x.text))
                           ELSE StrVal(Strip(x.text))
      [] OTHER -> StrVal(Strip(x.text))     \* float(None): TypeError, str(None)

\* normalize_value on a value that is already normalized (second pass).
renormalize_value(x) ==
    IF x.type = "float" THEN (IF x.nan THEN NanVal ELSE round8(x.ip, x.fp))
    ELSE IF float(x.text).ok THEN FromFloat(float(x.text))
    ELSE StrVal(Strip(x.text))

\* str(x) of a normalized value: the digits of a float, or the string itself.
RECURSIVE IntText(_)
IntText(n) ==
    IF n < 10 THEN <<DigitSeq[n + 1]>>
    ELSE IntText(n \div 10) \o <<DigitSeq[(n % 10) + 1]>>

RECURSIVE FracText(_, _)
FracText(n, width) ==
    IF n = 0 THEN <<>>
    ELSE <<DigitSeq[(n \div Pow10(width - 1)) + 1]>>
         \o FracText(n % Pow10(width - 1), width - 1)

str(x) ==
    IF x.type = "str" THEN x.text
    ELSE IF x.nan THEN <<"n", "a", "n">>
    ELSE IntText(x.ip) \o <<".">>
         \o (IF x.fp = 0 THEN <<"0">> ELSE FracText(x.fp, 9))

\* The order of characters in Python's string comparison.
CharOrder == <<" ", "'", ".">> \o DigitSeq \o UpperAlpha \o <<"_">> \o LowerAlpha
CharCode(c) == IndexIn(CharOrder, c)

RECURSIVE TextLess(_, _)
TextLess(a, b) ==
    IF b = <<>> THEN FALSE
    ELSE IF a = <<>> THEN TRUE
    ELSE IF CharCode(a[1]) # CharCode(b[1]) THEN CharCode(a[1]) < CharCode(b[1])
    ELSE TextLess(Tail(a), Tail(b))

\* key=lambda x: (str(type(x)), str(x)): "<class 'float'>" before "<class 'str'>".
KeyLess(x, y) ==
    IF x.type # y.type THEN x.type = "float"
    ELSE TextLess(str(x), str(y))

\* sorted(normalized, key=...): a stable insertion sort.
RECURSIVE InsertByKey(_, _)
InsertByKey(t, x) ==
    IF t = <<>> THEN <<x>>
    ELSE IF KeyLess(x, t[Len(t)])
         THEN Append(InsertByKey(SubSeq(t, 1, Len(t) - 1), x), t[Len(t)])
         ELSE Append(t, x)

RECURSIVE SortByKey(_)
SortByKey(t) ==
    IF t = <<>> THEN <<>>
    ELSE InsertByKey(SortByKey(SubSeq(t, 1, Len(t) - 1)), t[Len(t)])

normalize_tuple_order_insensitive(tup) ==
    SortByKey([k \in 1..Len(tup) |-> renormalize_value(tup[k])])

\* What ast.literal_eval does with a field: "raises" (ValueError or
\* SyntaxError: no literal), "atom" (a literal that cannot be iterated), or
\* "items".
literal_eval(f) ==
    CASE f.kind = "text" -> "raises"
      [] f.kind = "atom" -> IF f.items[1].kind = "call" THEN "raises" ELSE "atom"
      [] OTHER ->
           IF \E k \in 1..Len(f.items) : \E j \in 1..Len(f.items[k].vals) :
                  f.items[k].vals[j].kind = "call"
           THEN "raises" ELSE "items"

\* An entry of the dictionary read_result_file returns: a set of normalized
\* tuples, or the raw field.
SetEntry(rows) == [isset |-> TRUE, rows |-> rows, raw |-> TextField(<<>>)]
RawEntry(f) == [isset |-> FALSE, rows |-> {}, raw |-> f]
NoEntry == [isset |-> FALSE, rows |-> {}, raw |-> [kind |-> "absent", items |-> <<>>, text |-> <<>>]]

\* normalized_items of a parsed field (eval.py 39-45).
normalized_items(f) ==
    { [j \in 1..Len(f.items[k].vals) |-> normalize_value(f.items[k].vals[j])] :
        k \in 1..Len(f.items) }

\* The loop body of read_result_file on one line. The loop over a literal
\* that is no sequence raises TypeError, which no except clause catches.
ReadRaises(line) == line.fields >= 2 /\ literal_eval(line.field) = "atom"

ReadStep(data, line) ==
    IF line.fields < 2 THEN data
    ELSE IF literal_eval(line.field) = "items"
         THEN [data EXCEPT ![line.index] = SetEntry(normalized_items(line.field))]
         ELSE [data EXCEPT ![line.index] = RawEntry(line.field)]

\* Python's == on two sets of tuples read from two files: a tuple that holds
\* nan equals no tuple of the other set.
HasNan(t) == \E k \in 1..Len(t) : t[k].nan
SetsEqual(a, b) == a = b /\ \A t \in a : ~HasNan(t)

\* The test without the sort inside each tuple.
EntryMatches_unsorted(gold_val, pred_val) ==
    IF gold_val.isset /\ pred_val.isset
    THEN SetsEqual(gold_val.rows, pred_val.rows)
    ELSE /\ ~gold_val.isset
         /\ ~pred_val.isset
         /\ gold_val.raw = pred_val.raw

\* The test of compute_exec_score for one index (eval.py 94-102).
EntryMatches(gold_val, pred_val) ==
    IF gold_val.isset /\ pred_val.isset
    THEN SetsEqual({ normalize_tuple_order_insensitive(t) : t \in gold_val.rows },
                   { normalize_tuple_order_insensitive(t) : t \in pred_val.rows })
    ELSE /\ ~gold_val.isset
         /\ ~pred_val.isset
         /\ gold_val.raw = pred_val.raw

\* ----------------------------------------------------------------- helpers
\* sorted(list({q[2] for q in questions})) over the db_ids of the model.
DbOrder == <<"A", "B">>

BatchDbs(q) == { q[k].db : k \in 1..Len(q) }

\* Mutant: one migration task per question, without the set.
db_ids_of_questions(q) == [k \in 1..Len(q) |-> q[k].db]

unique_db_ids(q) == SelectSeq(DbOrder, LAMBDA d : d \in BatchDbs(q))

\* list.sort(key=index) / sorted(..., key=index): a stable insertion sort.
RECURSIVE InsertByIndex(_, _)
InsertByIndex(s, r) ==
    IF s = <<>> THEN <<r>>
    ELSE IF s[Len(s)].index <= r.index THEN Append(s, r)
    ELSE Append(InsertByIndex(SubSeq(s, 1, Len(s) - 1), r), s[Len(s)])

RECURSIVE SortByIndex(_)
SortByIndex(s) ==
    IF s = <<>> THEN <<>>
    ELSE InsertByIndex(SortByIndex(SubSeq(s, 1, Len(s) - 1)), s[Len(s)])

\* pool.starmap returns its results in the order of its arguments.
StarmapOrder(res, tasks) ==
    [k \in 1..Len(tasks) |->
        CHOOSE r \in { res[j] : j \in 1..Len(res) } : r.index = tasks[k].index]

failed_migrations == { migration_results[k].db : k \in
                        { j \in 1..Len(migration_results) :
                            migration_results[j].status = "error" } }

AllIdle == \A w \in Workers : running[w] = Idle

\* ------------------------------------------------------------ output lines
\* f"{index}\t{data}\n" on success, f"{index}\tError: {data}\n" otherwise.
WriteLine(r) == Line("rec", r.index, r.status # "success", r.data)

WriteLines(res) == [k \in 1..Len(res) |-> WriteLine(res[k])]

\* run_postgres: the record of a task whose SQLite file is missing.
PgMissingRecord(i) ==
    << Line("hdr", i, TRUE, <<"Index">>),
       Line("err", i, TRUE, MsgNotFound) >>

\* run_postgres: the record of a task whose migration or query raised.
PgErrorRecord(i, m) ==
    << Line("hdr", i, TRUE, <<"Index">>),
       Line("err", i, TRUE, m),
       Line("orig", i, TRUE, <<"Original", "SQL">>),
       Line("mod", i, TRUE, <<"Modified", "SQL">>) >>

\* ------------------------------------------------------------- connections
\* No connection.
NoConn == [by |-> Idle]

\* One connection that every task is handed.
connect_shared(task) == [by |-> Task(0, "pool")]

\* mysql.connector.connect / oracledb.connect / pymssql.connect inside the
\* worker function: a new connection, known by the invocation that opened it.
connect(task) == [by |-> task]

\* ------------------------------------------------------------------- Init
StartPc(e) ==
    CASE e \in {"mysql", "oracle"} -> "migrate"
      [] e = "sqlserver" -> "premigrate"
      [] e = "sqlite" -> "execute"
      [] OTHER -> "loop"

\* What the pool of the first phase is given.
StartPending(e, q) ==
    CASE e \in {"mysql", "oracle"} ->
            [k \in 1..Len(unique_db_ids(q)) |-> Task(0, unique_db_ids(q)[k])]
      [] e = "sqlite" -> q
      [] OTHER -> <<>>

\* The migrator's and the type mapping's variables while they do not run.
MgIdle ==
    /\ mg_engine = "-"
    /\ mg_source = <<>>
    /\ mg_ns = <<>>
    /\ mg_prior = <<>>
    /\ mg_runs = 0
    /\ mg_after1 = <<>>
    /\ mg_status = "none"
    /\ mg_failed = {}
    /\ mg_cut = 0

TyIdle ==
    /\ ty_engine = "-"
    /\ ty_decl = [none |-> TRUE, text |-> <<>>]
    /\ ty_out = ""
    /\ ty_pc = "off"

\* The statement harness and the naming harness while they do not run.
QyIdle ==
    qy = [pc |-> "off", engine |-> "-", stmt |-> "-", before |-> <<>>, ns |-> <<>>,
          driver |-> "-", status |-> "-", data |-> "-"]

LkIdle == lk = [pc |-> "off", sql |-> <<>>, executed |-> <<>>]

ApiIdle ==
    api = [pc |-> "off", index |-> 0, db_id |-> "-", attempt |-> 0,
           retry_limit |-> 0, outcomes |-> <<>>, slept |-> <<>>, ret |-> <<>>]

NmIdle ==
    nm = [pc |-> "off", engine |-> "-", a |-> <<>>, b |-> <<>>,
          catalog |-> {}, sql |-> <<>>, modified_sql |-> <<>>]

\* The scorer's variables while it does not run.
ScIdle ==
    /\ sc_pc = "off"
    /\ gold_data = <<>>
    /\ pred_data = <<>>
    /\ sc_line = NoTabLine
    /\ sc_n = 0
    /\ match_count = 0
    /\ total = 0
    /\ sc_matched = {}
    /\ score = [num |-> 0, den |-> 1]
    /\ cmp_gold = TextField(<<>>)
    /\ cmp_pred = TextField(<<>>)
    /\ cmp_pc = "off"
    /\ cmp_match = FALSE

RwIdle ==
    /\ rw_engine = "-"
    /\ rw_sql = <<>>
    /\ rw_db = <<>>
    /\ rw_once = <<>>
    /\ rw_twice = <<>>
    /\ rw_pc = "off"

Init ==
    /\ engine \in Engines
    /\ questions \in Batches
    /\ dbState \in [DbIds -> {"ok", "missing", "bad"}]
    /\ pc = StartPc(engine)
    /\ pending = StartPending(engine, questions)
    /\ running = [w \in Workers |-> Idle]
    /\ hung = {}
    /\ migration_results = <<>>
    /\ migrated = [d \in DbIds |-> "no"]
    /\ all_results = <<>>
    /\ pos = 1
    /\ started = {}
    /\ executed = {}
    /\ behaved = [i \in 1..MaxTasks |-> "none"]
    /\ output = <<>>
    /\ written = FALSE
    /\ conn = [w \in Workers |-> NoConn]
    /\ orphans = {}
    /\ RwIdle
    /\ ScIdle
    /\ MgIdle
    /\ TyIdle
    /\ QyIdle
    /\ NmIdle
    /\ LkIdle
    /\ ApiIdle

\* ------------------------------------------------- phase 1: pool migration
\* mp.Pool hands the next migration task to an idle worker.
MigStart(w) ==
    /\ pc = "migrate"
    /\ running[w] = Idle
    /\ pending # <<>>
    /\ running' = [running EXCEPT ![w] = Head(pending)]
    /\ pending' = Tail(pending)
    /\ conn' = [conn EXCEPT ![w] = IF dbState[Head(pending).db] = "missing"
                                   THEN NoConn ELSE connect(Head(pending))]
    /\ UNCHANGED <<engine, questions, dbState, pc, hung, migration_results,
                   migrated, all_results, pos, started, executed, behaved,
                   output, written, rw_vars, sc_vars, mg_vars, ty_vars, orphans,
                   qy_vars, nm_vars, lk_vars, api_vars>>

\* migrate_worker / sqlite_to_mysql / sqlite_to_oracle: (db_id, status, msg).
MigrateResult(d) ==
    CASE dbState[d] = "missing" -> [db |-> d, status |-> "error", data |-> MsgNotFound]
      [] dbState[d] = "bad" -> [db |-> d, status |-> "error", data |-> MsgMigrateExc]
      [] OTHER -> [db |-> d, status |-> "success", data |-> <<>>]

MigFinish(w) ==
    /\ pc = "migrate"
    /\ running[w] # Idle
    /\ LET r == MigrateResult(running[w].db) IN
         /\ migration_results' = Append(migration_results, r)
         /\ migrated' = [migrated EXCEPT ![r.db] =
                            IF r.status = "error" THEN "failed" ELSE "ok"]
    /\ running' = [running EXCEPT ![w] = Idle]
    /\ conn' = [conn EXCEPT ![w] = NoConn]
    /\ UNCHANGED <<engine, questions, dbState, pc, pending, hung, all_results,
                   pos, started, executed, behaved, output, written, rw_vars,
                   sc_vars, mg_vars, ty_vars, orphans,
                   qy_vars, nm_vars, lk_vars, api_vars>>

\* The first pool is exhausted: filter the tasks of failed databases and
\* give the rest to the second pool.
\* Mutant: the tasks of failed databases are not filtered out.
execution_tasks_unfiltered(q, failed) == q

execution_tasks(q, failed) == SelectSeq(q, LAMBDA t : t.db \notin failed)

MigDone ==
    /\ pc = "migrate"
    /\ pending = <<>>
    /\ AllIdle
    /\ pc' = "execute"
    /\ pending' = execution_tasks(questions, failed_migrations)
    /\ UNCHANGED <<engine, questions, dbState, running, hung, migration_results,
                   migrated, all_results, pos, started, executed, behaved,
                   output, written, rw_vars, sc_vars, mg_vars, ty_vars, conn_vars,
                   qy_vars, nm_vars, lk_vars, api_vars>>

\* ------------------------------------- sqlite2sqlserver.py (run beforehand)
\* main loops over the database directories one by one; migrate_database
\* prints its failure and returns nothing, a directory without its SQLite
\* file is skipped with a warning, and nothing is recorded for
\* run_sqlserver.py.
PreMigrate ==
    /\ pc = "premigrate"
    /\ pos <= Len(unique_db_ids(questions))
    /\ LET d == unique_db_ids(questions)[pos] IN
         migrated' = [migrated EXCEPT ![d] =
                         CASE dbState[d] = "bad" -> "failed"
                           [] dbState[d] = "missing" -> @
                           [] OTHER -> "ok"]
    /\ pos' = pos + 1
    /\ UNCHANGED <<engine, questions, dbState, pc, pending, running, hung,
                   migration_results, all_results, started, executed, behaved,
                   output, written, rw_vars, sc_vars, mg_vars, ty_vars, conn_vars,
                   qy_vars, nm_vars, lk_vars, api_vars>>

\* run_sqlserver.py main: every parsed query goes to the pool.
PreMigrateDone ==
    /\ pc = "premigrate"
    /\ pos > Len(unique_db_ids(questions))
    /\ pc' = "execute"
    /\ pos' = 1
    /\ pending' = questions
    /\ UNCHANGED <<engine, questions, dbState, running, hung, migration_results,
                   migrated, all_results, started, executed, behaved, output,
                   written, rw_vars, sc_vars, mg_vars, ty_vars, conn_vars,
                   qy_vars, nm_vars, lk_vars, api_vars>>

\* ------------------------------------------------- phase 2: pool execution
MsgSkipped == <<"database", "failed", "to", "migrate">>

\* run_mysql.execute_sql_worker: max_execution_time makes the server raise;
\* the worker recognises the timeout by the text of the error.
mysql_execute_sql_worker(i, o, t) ==
    CASE o = "rows" -> Result(i, "success", MsgRows)
      [] o = "error" -> Result(i, "error", <<"MySQL", "Error:">> \o MsgEngine)
      [] OTHER ->
            IF Contains(t, <<"maximum", "execution", "time">>)
            THEN Result(i, "error", MsgTimedOut)
            ELSE Result(i, "error", <<"MySQL", "Error:">> \o t)

\* run_oracle.execute_sql_worker, for a statement that returns.
oracle_execute_sql_worker(i, o) ==
    IF o = "rows" THEN Result(i, "success", MsgRows)
    ELSE Result(i, "error", MsgEngine)

\* run_sqlite.execute_single_sql, for a statement that returns.
execute_single_sql(i, d, o) ==
    CASE dbState[d] = "missing" -> Result(i, "error", MsgNotFound)
      [] dbState[d] = "bad" -> Result(i, "error", MsgEngine)
      [] o = "rows" -> Result(i, "success", MsgRows)
      [] OTHER -> Result(i, "error", MsgEngine)

\* Mutant: FunctionTimedOut falls into the generic except clause.
execute_sql_wrapper_generic(i, o) ==
    IF o = "rows" THEN Result(i, "success", MsgRows)
    ELSE Result(i, "error", <<"TypeName:">> \o MsgEngine)

\* run_sqlserver.execute_sql_wrapper: func_timeout around execute_sql.
execute_sql_wrapper(i, o) ==
    CASE o = "rows" -> Result(i, "success", MsgRows)
      [] o = "error" -> Result(i, "error", <<"TypeName:">> \o MsgEngine)
      [] OTHER -> Result(i, "error", MsgTimedOut)

\* Whether the engine or the wrapper ends a statement that does not return.
HasTimeout(e) == e \in {"mysql", "sqlserver"}

\* Whether this query, on this engine and database, never returns.
NeverReturns(e, d, o) ==
    /\ o = "slow"
    /\ ~HasTimeout(e)
    /\ ~(e = "sqlite" /\ dbState[d] # "ok")

\* func_timeout raises FunctionTimedOut in the worker while the thread that
\* runs execute_sql still waits in cursor.execute with its connection open:
\* nothing in execute_sql_wrapper closes that connection.
Abandons(e, o) == e = "sqlserver" /\ o = "slow"

\* The connection a timed-out task leaves behind, and the worker that left it.
abandoned(c, w) == [by |-> c.by, worker |-> w]

ExecStart(w) ==
    /\ pc = "execute"
    /\ running[w] = Idle
    /\ pending # <<>>
    /\ running' = [running EXCEPT ![w] = Head(pending)]
    /\ pending' = Tail(pending)
    /\ started' = started \cup {Head(pending).index}
    /\ conn' = [conn EXCEPT ![w] =
                  IF engine = "sqlite" /\ dbState[Head(pending).db] = "missing"
                  THEN NoConn ELSE connect(Head(pending))]
    /\ UNCHANGED <<engine, questions, dbState, pc, hung, migration_results,
                   migrated, all_results, pos, executed, behaved, output,
                   written, rw_vars, sc_vars, mg_vars, ty_vars, orphans,
                   qy_vars, nm_vars, lk_vars, api_vars>>

WorkerResult(e, i, d, o, t) ==
    CASE e = "mysql" -> mysql_execute_sql_worker(i, o, t)
      [] e = "oracle" -> oracle_execute_sql_worker(i, o)
      [] e = "sqlite" -> execute_single_sql(i, d, o)
      [] OTHER -> execute_sql_wrapper(i, o)

\* A worker returns the result of its task.
ExecFinish(w) ==
    /\ pc = "execute"
    /\ running[w] # Idle
    /\ w \notin hung
    /\ \E o \in Outcomes :
       \E t \in (IF engine = "mysql" /\ o = "slow"
                  THEN ServerTimeoutTexts ELSE {<<>>}) :
         LET i == running[w].index
             d == running[w].db
         IN
         /\ ~NeverReturns(engine, d, o)
         /\ all_results' = Append(all_results,
                                  WorkerResult(engine, i, d, o, t))
         /\ behaved' = [behaved EXCEPT ![i] =
                           IF engine = "sqlite" /\ dbState[d] # "ok"
                           THEN "error" ELSE o]
         /\ executed' = IF engine = "sqlite" /\ dbState[d] = "missing"
                        THEN executed ELSE executed \cup {i}
         /\ orphans' = IF Abandons(engine, o)
                       THEN orphans \cup {abandoned(conn[w], w)}
                       ELSE orphans
    /\ running' = [running EXCEPT ![w] = Idle]
    /\ conn' = [conn EXCEPT ![w] = NoConn]
    /\ UNCHANGED <<engine, questions, dbState, pc, pending, hung,
                   migration_results, migrated, pos, started, output, written,
                   rw_vars, sc_vars, mg_vars, ty_vars, qy_vars, nm_vars, lk_vars, api_vars>>

\* A worker blocks in cursor.execute for good: run_oracle and run_sqlite set
\* no statement timeout (sqlite3.connect(timeout=10) bounds lock waits only).
ExecHang(w) ==
    /\ pc = "execute"
    /\ running[w] # Idle
    /\ w \notin hung
    /\ NeverReturns(engine, running[w].db, "slow")
    /\ hung' = hung \cup {w}
    /\ behaved' = [behaved EXCEPT ![running[w].index] = "slow"]
    /\ executed' = executed \cup {running[w].index}
    /\ UNCHANGED <<engine, questions, dbState, pc, pending, running,
                   migration_results, migrated, all_results, pos, started,
                   output, written, rw_vars, sc_vars, mg_vars, ty_vars, conn_vars,
                   qy_vars, nm_vars, lk_vars, api_vars>>

\* Errors appended for the queries whose database failed to migrate.
SkippedResults(q, failed) ==
    LET sk == SelectSeq(q, LAMBDA t : t.db \in failed) IN
    [k \in 1..Len(sk) |-> Result(sk[k].index, "error", MsgSkipped)]

\* What main holds once the pool has returned every result.
Collected(e, res, q) ==
    IF e = "sqlserver" THEN StarmapOrder(res, q) ELSE res

\* The pool is exhausted: add the skipped tasks, sort by index, write.
ExecDone ==
    /\ pc = "execute"
    /\ pending = <<>>
    /\ AllIdle
    /\ LET final == SortByIndex(Collected(engine, all_results, questions)
                                \o SkippedResults(questions, failed_migrations))
       IN /\ all_results' = final
          /\ output' = WriteLines(final)
    /\ written' = TRUE
    /\ pc' = "done"
    \* leaving the with block terminates the pool's processes
    /\ orphans' = {}
    /\ UNCHANGED <<engine, questions, dbState, pending, running, hung,
                   migration_results, migrated, pos, started, executed, behaved,
                   conn, rw_vars, sc_vars, mg_vars, ty_vars, qy_vars, nm_vars, lk_vars, api_vars>>

\* The thread of a timed-out task comes back from the driver, gets the
\* exception func_timeout left for it and ends; its connection goes with it.
OrphanEnds ==
    /\ pc = "execute"
    /\ \E o \in orphans : orphans' = orphans \ {o}
    /\ UNCHANGED <<exec_vars, conn, rw_vars, sc_vars, mg_vars, ty_vars, qy_vars,
                   nm_vars, lk_vars, api_vars>>

\* ------------------------------------------- run_duckdb.py: one loop, no pool
\* One iteration whose ATTACH succeeds: the query returns rows or raises, the
\* line is appended and the database is detached. ATTACH of a path that
\* does not exist may create an empty database, on which the query raises.
DuckStep ==
    /\ pc = "loop"
    /\ engine = "duckdb"
    /\ hung = {}
    /\ pos <= Len(questions)
    /\ dbState[questions[pos].db] \in {"ok", "missing"}
    /\ \E o \in (IF dbState[questions[pos].db] = "ok"
                  THEN {"rows", "error"} ELSE {"error"}) :
         LET i == questions[pos].index IN
         /\ all_results' = Append(all_results,
                IF o = "rows" THEN Line("rec", i, FALSE, MsgRows)
                ELSE Line("rec", i, TRUE, MsgEngine))
         /\ behaved' = [behaved EXCEPT ![i] = o]
         /\ executed' = executed \cup {i}
         /\ started' = started \cup {i}
    /\ pos' = pos + 1
    /\ UNCHANGED <<engine, questions, dbState, pc, pending, running, hung,
                   migration_results, migrated, output, written, rw_vars, sc_vars, mg_vars, ty_vars, conn_vars,
                   qy_vars, nm_vars, lk_vars, api_vars>>

\* One iteration whose ATTACH raises: the except clause appends the error
\* line, then the finally clause runs DETACH on a database that is not
\* attached, which raises out of the loop and out of the function.
DuckAbort ==
    /\ pc = "loop"
    /\ engine = "duckdb"
    /\ hung = {}
    /\ pos <= Len(questions)
    /\ dbState[questions[pos].db] \in {"missing", "bad"}
    /\ all_results' = Append(all_results,
                             Line("rec", questions[pos].index, TRUE, MsgEngine))
    /\ pc' = "crashed"
    /\ UNCHANGED <<engine, questions, dbState, pending, running, hung,
                   migration_results, migrated, pos, started, executed, behaved,
                   output, written, rw_vars, sc_vars, mg_vars, ty_vars, conn_vars,
                   qy_vars, nm_vars, lk_vars, api_vars>>

\* --------------------------------------- run_postgres.py: one loop, no pool
\* One iteration of run_postgres_and_save_results that comes back.
PgStep ==
    /\ pc = "loop"
    /\ engine = "postgres"
    /\ hung = {}
    /\ pos <= Len(questions)
    /\ LET i == questions[pos].index
           d == questions[pos].db
       IN
       \/ /\ dbState[d] = "missing"    \* os.path.isfile fails: continue
          /\ all_results' = all_results \o PgMissingRecord(i)
          /\ UNCHANGED <<migrated, behaved, executed, started>>
       \/ /\ dbState[d] = "bad"        \* sqlite_to_postgres raises
          /\ all_results' = all_results \o PgErrorRecord(i, MsgMigrateExc)
          /\ migrated' = [migrated EXCEPT ![d] = "failed"]
          /\ UNCHANGED <<behaved, executed, started>>
       \/ /\ dbState[d] = "ok"         \* migrated, rewritten, executed
          /\ migrated' = [migrated EXCEPT ![d] = "ok"]
          /\ \E o \in {"rows", "error"} :
               /\ all_results' = all_results \o
                      (IF o = "rows" THEN <<Line("rec", i, FALSE, MsgRows)>>
                       ELSE PgErrorRecord(i, MsgEngine))
               /\ behaved' = [behaved EXCEPT ![i] = o]
          /\ executed' = executed \cup {i}
          /\ started' = started \cup {i}
    /\ pos' = pos + 1
    /\ UNCHANGED <<engine, questions, dbState, pc, pending, running, hung,
                   migration_results, output, written, rw_vars, sc_vars, mg_vars, ty_vars, conn_vars,
                   qy_vars, nm_vars, lk_vars, api_vars>>

\* The query of the current iteration never returns: neither script sets a
\* statement timeout, and the loop (the only thread) blocks in execute.
SeqHang ==
    /\ pc = "loop"
    /\ engine \in {"duckdb", "postgres"}
    /\ hung = {}
    /\ pos <= Len(questions)
    /\ dbState[questions[pos].db] = "ok"
    /\ hung' = {1}
    /\ migrated' = IF engine = "postgres"
                   THEN [migrated EXCEPT ![questions[pos].db] = "ok"]
                   ELSE migrated
    /\ behaved' = [behaved EXCEPT ![questions[pos].index] = "slow"]
    /\ executed' = executed \cup {questions[pos].index}
    /\ started' = started \cup {questions[pos].index}
    /\ UNCHANGED <<engine, questions, dbState, pc, pending, running,
                   migration_results, all_results, pos, output, written,
                   rw_vars, sc_vars, mg_vars, ty_vars, conn_vars,
                   qy_vars, nm_vars, lk_vars, api_vars>>

\* output.writelines(results): the lines in the order of the loop.
SeqWrite ==
    /\ pc = "loop"
    /\ hung = {}
    /\ pos > Len(questions)
    /\ output' = all_results
    /\ written' = TRUE
    /\ pc' = "done"
    /\ UNCHANGED <<engine, questions, dbState, pending, running, hung,
                   migration_results, migrated, all_results, pos, started,
                   executed, behaved, rw_vars, sc_vars, mg_vars, ty_vars, conn_vars,
                   qy_vars, nm_vars, lk_vars, api_vars>>

\* ------------------------------------------------------------------- Next
Next ==
    \/ \E w \in Workers : MigStart(w)
    \/ \E w \in Workers : MigFinish(w)
    \/ MigDone
    \/ PreMigrate
    \/ PreMigrateDone
    \/ \E w \in Workers : ExecStart(w)
    \/ \E w \in Workers : ExecFinish(w)
    \/ \E w \in Workers : ExecHang(w)
    \/ ExecDone
    \/ OrphanEnds
    \/ DuckStep
    \/ DuckAbort
    \/ PgStep
    \/ SeqHang
    \/ SeqWrite

Spec == Init /\ [][Next]_vars

\* Every step that can be taken is taken: pool workers and the main routine
\* run until they return or block.
FairSpec == Spec /\ WF_vars(Next)

\* The same scripts started with --num_workers one below the number of
\* worker slots: the pool then has fewer processes than the batch has tasks.
SmallPool == 1..(NumWorkers - 1)

NextSmallPool ==
    \/ \E w \in SmallPool : MigStart(w)
    \/ \E w \in SmallPool : MigFinish(w)
    \/ MigDone
    \/ PreMigrate
    \/ PreMigrateDone
    \/ \E w \in SmallPool : ExecStart(w)
    \/ \E w \in SmallPool : ExecFinish(w)
    \/ \E w \in SmallPool : ExecHang(w)
    \/ ExecDone
    \/ OrphanEnds
    \/ DuckStep
    \/ DuckAbort
    \/ PgStep
    \/ SeqHang
    \/ SeqWrite

SpecSmallPool == Init /\ [][NextSmallPool]_vars

\* ------------------------------------------- the rewriter, applied to texts
\* The executors' variables while only the rewriter runs.
ExecIdle ==
    /\ engine = "-"
    /\ questions = <<>>
    /\ dbState = [d \in DbIds |-> "ok"]
    /\ pc = "off"
    /\ pending = <<>>
    /\ running = [w \in Workers |-> Idle]
    /\ hung = {}
    /\ migration_results = <<>>
    /\ migrated = [d \in DbIds |-> "no"]
    /\ all_results = <<>>
    /\ pos = 1
    /\ started = {}
    /\ executed = {}
    /\ behaved = [i \in 1..MaxTasks |-> "none"]
    /\ output = <<>>
    /\ written = FALSE
    /\ conn = [w \in Workers |-> NoConn]
    /\ orphans = {}

\* The engines that have a rewriter.
RewriteEngines == {"duckdb", "postgres", "oracle"}

\* The db_id the texts are rewritten for.
RwDbId == <<"D", "b">>

\* Pieces of SQL text; an input is up to MaxLexemes of them in a row.
Lexemes ==
    { <<"F", "R", "O", "M", " ">>,
      <<"j", "o", "i", "n", " ", " ">>,
      <<"D", "E", "L", "E", "T", "E", " ">>,
      <<"T", "b">>,
      <<"D", "b", ".", "T", "b">>,
      <<DQ, "T", "b", DQ>>,
      <<BQ, "T", "b", BQ>>,
      <<DQ>>,
      <<" ">>,
      <<",", " ", "T", "c">>,
      <<"x">> }

RECURSIVE Texts(_)
Texts(n) ==
    IF n = 0 THEN { <<>> }
    ELSE Texts(n - 1) \cup { t \o l : t \in Texts(n - 1), l \in Lexemes }

InitRewrite ==
    /\ ExecIdle
    /\ ScIdle
    /\ MgIdle
    /\ TyIdle
    /\ QyIdle
    /\ NmIdle
    /\ LkIdle
    /\ ApiIdle
    /\ rw_engine \in RewriteEngines
    /\ rw_sql \in Texts(MaxLexemes)
    /\ rw_db = RwDbId
    /\ rw_once = <<>>
    /\ rw_twice = <<>>
    /\ rw_pc = "in"

\* modified_sql = prefix_table_names(sql, db_id)  /  rewrite_sql_for_oracle
RewriteOnce ==
    /\ rw_pc = "in"
    /\ rw_once' = rewrite(rw_engine, rw_sql, rw_db)
    /\ rw_pc' = "once"
    /\ UNCHANGED <<exec_vars, conn_vars, mg_vars, ty_vars, qy_vars, nm_vars, lk_vars, api_vars, sc_vars, rw_engine, rw_sql, rw_db, rw_twice>>

\* The rewriter applied to its own output.
RewriteTwice ==
    /\ rw_pc = "once"
    /\ rw_twice' = rewrite(rw_engine, rw_once, rw_db)
    /\ rw_pc' = "twice"
    /\ UNCHANGED <<exec_vars, conn_vars, mg_vars, ty_vars, qy_vars, nm_vars, lk_vars, api_vars, sc_vars, rw_engine, rw_sql, rw_db, rw_once>>

NextRewrite ==
    \/ RewriteOnce
    \/ RewriteTwice

SpecRewrite == InitRewrite /\ [][NextRewrite]_vars

\* ------------------------------------------------ the scorer, file by file
\* The indices of the result files.
ScoreIndices == {1, 2}

\* Rows and texts the fields are made of.
One == Num(<<"1">>)
Two == Num(<<"2">>)
Three == Num(<<"3">>)
StrA == Str(<<"a">>)
StrB == Str(<<"b">>)
StrX == Str(<<"x">>)
ErrorX == TextField(<<"E", "r", "r", "o", "r", " ", "x">>)
ErrorY == TextField(<<"E", "r", "r", "o", "r", " ", "y">>)

\* The fields of the lines of the files: lists that are equal up to the
\* order of rows or of columns, lists that differ, texts, a list that holds
\* a call, a literal that is no sequence.
FileFields ==
    { ListField(<<Tup(<<One, StrA>>), Tup(<<Two, StrB>>)>>),
      ListField(<<Tup(<<Two, StrB>>), Tup(<<One, StrA>>)>>),
      ListField(<<Tup(<<StrA, One>>), Tup(<<StrB, Two>>)>>),
      ListField(<<Tup(<<Three>>)>>),
      ListField(<<Tup(<<CallLit(<<"D", "3">>)>>)>>),
      ErrorX,
      ErrorY,
      AtomField(Three) }

FileLines ==
    { ResultLine(i, f) : i \in ScoreIndices, f \in FileFields } \cup { NoTabLine }

EmptyData == [i \in ScoreIndices |-> NoEntry]

InitScore ==
    /\ ExecIdle
    /\ RwIdle
    /\ MgIdle
    /\ TyIdle
    /\ QyIdle
    /\ NmIdle
    /\ LkIdle
    /\ ApiIdle
    /\ sc_pc = "gold"
    /\ gold_data = EmptyData
    /\ pred_data = EmptyData
    /\ sc_line = NoTabLine
    /\ sc_n = 0
    /\ match_count = 0
    /\ total = 0
    /\ sc_matched = {}
    /\ score = [num |-> 0, den |-> 1]
    /\ cmp_gold = TextField(<<>>)
    /\ cmp_pred = TextField(<<>>)
    /\ cmp_pc = "off"
    /\ cmp_match = FALSE

cmp_unchanged == UNCHANGED <<cmp_gold, cmp_pred, cmp_pc, cmp_match>>

\* read_result_file(gold_file): the loop body on the next line of the file.
ReadGoldLine ==
    /\ sc_pc = "gold"
    /\ sc_n < MaxLines
    /\ \E line \in FileLines :
         /\ sc_line' = line
         /\ IF ReadRaises(line)
            THEN sc_pc' = "raised" /\ gold_data' = gold_data
            ELSE sc_pc' = sc_pc /\ gold_data' = ReadStep(gold_data, line)
    /\ sc_n' = sc_n + 1
    /\ UNCHANGED <<exec_vars, conn_vars, mg_vars, ty_vars, qy_vars, nm_vars, lk_vars, api_vars, rw_vars, pred_data, match_count, total, sc_matched, score>>
    /\ cmp_unchanged

\* The end of the gold file: read_result_file returns.
GoldEOF ==
    /\ sc_pc = "gold"
    /\ sc_pc' = "pred"
    /\ sc_n' = 0
    /\ UNCHANGED <<exec_vars, conn_vars, mg_vars, ty_vars, qy_vars, nm_vars, lk_vars, api_vars, rw_vars, gold_data, pred_data, sc_line, match_count,
                   total, sc_matched, score>>
    /\ cmp_unchanged

\* read_result_file(pred_file): the loop body on the next line of the file.
ReadPredLine ==
    /\ sc_pc = "pred"
    /\ sc_n < MaxLines
    /\ \E line \in FileLines :
         /\ sc_line' = line
         /\ IF ReadRaises(line)
            THEN sc_pc' = "raised" /\ pred_data' = pred_data
            ELSE sc_pc' = sc_pc /\ pred_data' = ReadStep(pred_data, line)
    /\ sc_n' = sc_n + 1
    /\ UNCHANGED <<exec_vars, conn_vars, mg_vars, ty_vars, qy_vars, nm_vars, lk_vars, api_vars, rw_vars, gold_data, match_count, total, sc_matched, score>>
    /\ cmp_unchanged

\* The end of the predicted file.
PredEOF ==
    /\ sc_pc = "pred"
    /\ sc_pc' = "score"
    /\ sc_n' = 0
    /\ UNCHANGED <<exec_vars, conn_vars, mg_vars, ty_vars, qy_vars, nm_vars, lk_vars, api_vars, rw_vars, gold_data, pred_data, sc_line, match_count,
                   total, sc_matched, score>>
    /\ cmp_unchanged

\* The keys of a dictionary.
Keys(data) == { i \in ScoreIndices : data[i] # NoEntry }

\* pred_data.get(index)
pred_get(data, i) == data[i]

\* A loop that counts an index the predicted file lacks.
MatchedIndices_lenient(gold, pred) ==
    { i \in Keys(gold) : pred[i] = NoEntry \/ EntryMatches(gold[i], pred_get(pred, i)) }

\* The indices the loop of compute_exec_score counts (eval.py 89-102).
MatchedIndices(gold, pred) ==
    { i \in Keys(gold) : EntryMatches(gold[i], pred_get(pred, i)) }

\* compute_exec_score after both files are read: total, the loop, the score.
Score ==
    /\ sc_pc = "score"
    /\ total' = Cardinality(Keys(gold_data))
    /\ sc_matched' = IF Keys(gold_data) = {} THEN {}
                     ELSE MatchedIndices(gold_data, pred_data)
    /\ match_count' = Cardinality(sc_matched')
    /\ score' = IF total' = 0 THEN [num |-> 0, den |-> 1]
                ELSE [num |-> match_count', den |-> total']
    /\ sc_pc' = "done"
    /\ UNCHANGED <<exec_vars, conn_vars, mg_vars, ty_vars, qy_vars, nm_vars, lk_vars, api_vars, rw_vars, gold_data, pred_data, sc_line, sc_n>>
    /\ cmp_unchanged

NextScore ==
    \/ ReadGoldLine
    \/ GoldEOF
    \/ ReadPredLine
    \/ PredEOF
    \/ Score

SpecScore == InitScore /\ [][NextScore]_vars

\* ------------------------------------------ the scorer, one entry against one
\* The rows of the lists that are compared.
RowPool ==
    { Tup(<<One, StrA>>),
      Tup(<<Two, StrB>>),
      Tup(<<StrX, One>>),
      Tup(<<One, StrX>>),
      Tup(<<Str(<<"n", "a", "n">>), Two>>) }

RECURSIVE Lists(_)
Lists(n) ==
    IF n = 0 THEN { <<>> }
    ELSE Lists(n - 1) \cup { Append(l, r) : l \in Lists(n - 1), r \in RowPool }

\* The numbers that are compared, as they are written. None of them lies
\* halfway between two multiples of 10^-8.
NumberPool ==
    { Num(<<"3">>),
      Num(<<"3", ".", "0", "0", "0", "0", "0", "0", "0", "0">>),
      Str(<<"3", ".", "0", "0", "0", "0", "0", "0", "0", "0">>),
      Str(<<" ", "3", " ">>),
      Num(<<"3", ".", "0", "0", "0", "0", "0", "0", "0", "0", "1">>),
      Num(<<"3", ".", "0", "0", "0", "0", "0", "0", "0", "0", "2">>),
      Num(<<"3", ".", "0", "0", "0", "0", "0", "0", "1">>),
      Num(<<"3", ".", "0", "0", "0", "0", "0", "0", "2">>),
      Num(<<"2", ".", "9", "9", "9", "9", "9", "9", "9", "9", "9">>) }

NumberFields == { ListField(<<Tup(<<v>>)>>) : v \in NumberPool }

CompareFields == { ListField(l) : l \in Lists(MaxRows) } \cup NumberFields

InitCompare ==
    /\ ExecIdle
    /\ RwIdle
    /\ MgIdle
    /\ TyIdle
    /\ QyIdle
    /\ NmIdle
    /\ LkIdle
    /\ ApiIdle
    /\ sc_pc = "off"
    /\ gold_data = <<>>
    /\ pred_data = <<>>
    /\ sc_line = NoTabLine
    /\ sc_n = 0
    /\ match_count = 0
    /\ total = 0
    /\ sc_matched = {}
    /\ score = [num |-> 0, den |-> 1]
    /\ cmp_gold \in CompareFields
    /\ cmp_pred \in CompareFields
    /\ cmp_pc = "in"
    /\ cmp_match = FALSE

\* compute_exec_score on a gold file and a predicted file of one line each,
\* both with index 1.
Compare ==
    /\ cmp_pc = "in"
    /\ cmp_match' = (1 \in MatchedIndices(ReadStep(EmptyData, ResultLine(1, cmp_gold)),
                                          ReadStep(EmptyData, ResultLine(1, cmp_pred))))
    /\ cmp_pc' = "done"
    /\ UNCHANGED <<exec_vars, conn_vars, mg_vars, ty_vars, qy_vars, nm_vars, lk_vars, api_vars, rw_vars, sc_pc, gold_data, pred_data, sc_line, sc_n,
                   match_count, total, sc_matched, score, cmp_gold, cmp_pred>>

NextCompare == Compare

SpecCompare == InitCompare /\ [][NextCompare]_vars

\* --------------------------------------- the migrators, one database at a time
\* The tables of one database, in the order sqlite_master lists them.
Tables == <<"t1", "t2">>
TableNames == {Tables[k] : k \in 1..Len(Tables)}

\* A table that is not there, and a table with its rows.
NoTable == [exists |-> FALSE, rows |-> <<>>]
Table(rows) == [exists |-> TRUE, rows |-> rows]

\* A source row is one the target accepts or one whose INSERT the target
\* rejects (type coercion error, constraint violation).
SourceRows == UNION {[1..n -> {"ok", "bad"}] : n \in 0..MaxSrcRows}
Accepted(row) == row = "ok"

\* The connection's view of the namespace: what is committed, what the open
\* transaction has changed, the tables whose bulk insert failed, and whether
\* the function has left its loop through an exception.
Session(ns) == [committed |-> ns, working |-> ns, failed |-> {}, raised |-> FALSE]

commit(st) == [st EXCEPT !.committed = st.working]
rollback(st) == [st EXCEPT !.working = st.committed]

\* MySQL and Oracle commit the open transaction around every DDL statement.
implicit_commit(st, ns) == [st EXCEPT !.committed = ns, !.working = ns]

\* INSERT of rows into a table of the open transaction.
insert(st, t, rows) ==
    [st EXCEPT !.working = [@ EXCEPT ![t] = Table(@.rows \o rows)]]

\* executemany raises when the target rejects one of the rows.
executemany_raises(rows) == \E k \in 1..Len(rows) : ~Accepted(rows[k])

\* CREATE TABLE on a name that is kept: the rows already there stay.
create_table_if_missing(ns, t) ==
    IF ns[t].exists THEN ns ELSE [ns EXCEPT ![t] = Table(<<>>)]

\* DROP TABLE (errors ignored) followed by CREATE TABLE.
recreate_table(ns, t) == [ns EXCEPT ![t] = Table(<<>>)]

\* run_mysql.py: SHOW TABLES, then DROP TABLE for each of them.
drop_all_tables(ns) == [t \in TableNames |-> NoTable]

\* The rows a bulk insert has gone through when it meets a row the target
\* rejects.
RECURSIVE rows_before_failure(_)
rows_before_failure(rows) ==
    IF rows = <<>> \/ ~Accepted(Head(rows)) THEN <<>>
    ELSE <<Head(rows)>> \o rows_before_failure(Tail(rows))

\* Mutant: a table that keeps the rows of a statement that failed.
failed_statement_kept(st, t, partial) == insert(st, t, partial)

\* mysql.connector sends the executemany of an INSERT as one multi-row
\* statement; the table is created with ENGINE=InnoDB, which undoes a
\* statement that fails.
failed_statement(st, t, partial) == st

\* run_mysql.py: one pass of the loop over the source's tables.
mysql_table(st, src, t) ==
    LET created == implicit_commit(st, [st.working EXCEPT ![t] = Table(<<>>)])
        rows == src[t].rows
    IN  IF rows = <<>> THEN created
        ELSE IF ~executemany_raises(rows) THEN insert(created, t, rows)
        ELSE LET bulk == failed_statement(created, t, rows_before_failure(rows))
             IN  \* for row in rows: try execute(insert_sql, row) except pass
                 [insert(bulk, t, SelectSeq(rows, Accepted))
                    EXCEPT !.failed = @ \cup {t}]

\* run_oracle.py: one pass of the loop; an exception leaves the loop.
oracle_table(st, src, t) ==
    LET created == implicit_commit(st, recreate_table(st.working, t))
        rows == src[t].rows
    IN  IF rows = <<>> THEN created
        ELSE IF ~executemany_raises(rows) THEN insert(created, t, rows)
        ELSE [rollback(created) EXCEPT !.failed = @ \cup {t}, !.raised = TRUE]

\* sqlite2sqlserver.py: one pass of the loop; DDL is part of the transaction,
\* which pymssql opens without autocommit.
sqlserver_table(st, src, t) ==
    LET created == [st EXCEPT !.working = recreate_table(@, t)]
        rows == src[t].rows
    IN  IF rows = <<>> THEN created
        ELSE IF ~executemany_raises(rows) THEN commit(insert(created, t, rows))
        ELSE [rollback(created) EXCEPT !.failed = @ \cup {t}]

one_table(e, st, src, t) ==
    CASE e = "mysql" -> mysql_table(st, src, t)
      [] e = "oracle" -> oracle_table(st, src, t)
      [] OTHER -> sqlserver_table(st, src, t)

\* for table_name in tables: ...
RECURSIVE for_tables(_, _, _, _)
for_tables(e, st, src, k) ==
    IF k > Len(Tables) \/ st.raised THEN st
    ELSE IF ~src[Tables[k]].exists THEN for_tables(e, st, src, k + 1)
    ELSE for_tables(e, one_table(e, st, src, Tables[k]), src, k + 1)

\* sqlite_to_mysql: drop everything, copy, commit, close.
sqlite_to_mysql(ns, src) ==
    LET st == for_tables("mysql", Session(drop_all_tables(ns)), src, 1)
    IN  [ns |-> commit(st).committed, status |-> "success", failed |-> st.failed]

\* sqlite_to_oracle: copy, commit; on an exception roll back and return error.
sqlite_to_oracle(ns, src) ==
    LET st == for_tables("oracle", Session(ns), src, 1)
    IN  IF st.raised
        THEN [ns |-> st.committed, status |-> "error", failed |-> st.failed]
        ELSE [ns |-> commit(st).committed, status |-> "success",
              failed |-> st.failed]

\* migrate_database: copy and commit table by table; close() drops whatever
\* is not committed; nothing is returned.
migrate_database(ns, src) ==
    LET st == for_tables("sqlserver", Session(ns), src, 1)
    IN  [ns |-> st.committed, status |-> "returned", failed |-> st.failed]

\* The run of the engine's migrator.
migrate(e, ns, src) ==
    CASE e = "mysql" -> sqlite_to_mysql(ns, src)
      [] e = "oracle" -> sqlite_to_oracle(ns, src)
      [] OTHER -> migrate_database(ns, src)

\* The source's tables in order, and the source cut down to its first k.
SourceOrder(src) == SelectSeq(Tables, LAMBDA t : src[t].exists)

first_k(src, k) ==
    [t \in TableNames |->
        IF \E j \in 1..k : j <= Len(SourceOrder(src)) /\ SourceOrder(src)[j] = t
        THEN src[t] ELSE NoTable]

\* The process is killed when the loop has loaded k tables: no commit()
\* is reached, and the server drops what the session had not committed.
killed(e, ns, src, k) ==
    for_tables(e, Session(IF e = "mysql" THEN drop_all_tables(ns) ELSE ns),
               first_k(src, k), 1).committed

MigEngines == {"mysql", "oracle", "sqlserver"}

InitMigrate ==
    /\ ExecIdle
    /\ RwIdle
    /\ ScIdle
    /\ TyIdle
    /\ QyIdle
    /\ NmIdle
    /\ LkIdle
    /\ ApiIdle
    /\ mg_engine \in MigEngines
    /\ mg_source \in [TableNames -> {NoTable} \cup {Table(r) : r \in SourceRows}]
    \* before the first run: nothing, or a table left by an earlier run
    /\ mg_prior \in [TableNames -> {NoTable, Table(<<"old">>)}]
    /\ mg_ns = mg_prior
    /\ mg_runs = 0
    /\ mg_after1 = mg_prior
    /\ mg_status = "none"
    /\ mg_failed = {}
    /\ mg_cut = 0

\* One run of the migrator against the same source.
Ran(out) ==
    /\ mg_runs < MaxRuns
    /\ mg_runs' = mg_runs + 1
    /\ mg_ns' = out.ns
    /\ mg_status' = out.status
    /\ mg_failed' = out.failed
    /\ mg_after1' = IF mg_runs = 0 THEN out.ns ELSE mg_after1
    /\ UNCHANGED <<exec_vars, conn_vars, rw_vars, sc_vars, ty_vars, qy_vars,
                   nm_vars, lk_vars, api_vars, mg_engine, mg_source, mg_prior, mg_cut>>

\* The user aborts the first run after k tables whose rows were all accepted.
Interrupt ==
    /\ mg_runs = 0
    /\ mg_cut = 0
    /\ \E k \in 1..Len(SourceOrder(mg_source)) :
         /\ \A j \in 1..k :
              ~executemany_raises(mg_source[SourceOrder(mg_source)[j]].rows)
         /\ mg_cut' = k
         /\ mg_ns' = killed(mg_engine, mg_ns, mg_source, k)
    /\ mg_status' = "killed"
    /\ UNCHANGED <<exec_vars, conn_vars, rw_vars, sc_vars, ty_vars, qy_vars,
                   nm_vars, lk_vars, api_vars, mg_engine, mg_source, mg_prior, mg_runs, mg_after1,
                   mg_failed>>

RunMySQL == mg_engine = "mysql" /\ Ran(sqlite_to_mysql(mg_ns, mg_source))

RunOracle == mg_engine = "oracle" /\ Ran(sqlite_to_oracle(mg_ns, mg_source))

RunSQLServer == mg_engine = "sqlserver" /\ Ran(migrate_database(mg_ns, mg_source))

NextMigrate == RunMySQL \/ RunOracle \/ RunSQLServer \/ Interrupt

SpecMigrate == InitMigrate /\ [][NextMigrate]_vars

\* ------------------------------------------- the type mappings, type by type
\* A declared column type as PRAGMA table_info gives it: a text, possibly
\* empty. translate_type also takes None.
Decl(none, text) == [none |-> none, text |-> text]

TypeParts ==
    {<<"I", "N", "T", "E", "G", "E", "R">>,
     <<"i", "n", "t", "e", "g", "e", "r">>,
     <<"I", "N", "T">>,
     <<"T", "E", "X", "T">>,
     <<"R", "E", "A", "L">>,
     <<"B", "L", "O", "B">>,
     <<"N", "U", "M", "E", "R", "I", "C">>,
     <<"B", "O", "O", "L", "E", "A", "N">>,
     <<"V", "A", "R", "C", "H", "A", "R">>,
     <<"(", "1", "0", ")">>,
     <<"D", "A", "T", "E">>,
     <<"P", "O", "I", "N", "T">>,
     <<"F", "L", "O", "A", "T">>,
     <<"D", "O", "U", "B", "L", "E">>,
     <<"C", "L", "O", "B">>,
     <<"J", "S", "O", "N">>,
     <<" ">>}

RECURSIVE Concats(_)
Concats(n) ==
    IF n = 0 THEN {<<>>}
    ELSE Concats(n - 1) \cup {a \o b : a \in Concats(n - 1), b \in TypeParts}

\* The type names the mappings look for, letter by letter.
TypeWord ==
    [INTEGER |-> <<"I", "N", "T", "E", "G", "E", "R">>,
     REAL |-> <<"R", "E", "A", "L">>,
     TEXT |-> <<"T", "E", "X", "T">>,
     BLOB |-> <<"B", "L", "O", "B">>,
     NUMERIC |-> <<"N", "U", "M", "E", "R", "I", "C">>,
     BOOLEAN |-> <<"B", "O", "O", "L", "E", "A", "N">>,
     INT |-> <<"I", "N", "T">>,
     CHAR |-> <<"C", "H", "A", "R">>,
     CLOB |-> <<"C", "L", "O", "B">>,
     FLOAT |-> <<"F", "L", "O", "A", "T">>,
     DOUBLE |-> <<"D", "O", "U", "B", "L", "E">>,
     DATE |-> <<"D", "A", "T", "E">>]

\* The keys of both type_mapping dictionaries.
SqliteTypes ==
    {TypeWord[k] : k \in {"INTEGER", "REAL", "TEXT", "BLOB", "NUMERIC", "BOOLEAN"}}

\* mapping[key], which raises KeyError on a key that is not there.
getitem(mapping, key, default) ==
    IF key \in DOMAIN mapping THEN mapping[key] ELSE "KeyError"

\* mapping.get(key, default)
get(mapping, key, default) ==
    IF key \in DOMAIN mapping THEN mapping[key] ELSE default

\* run_mysql.py: type_mapping
mysql_type_mapping ==
    [k \in SqliteTypes |->
        CASE k = TypeWord.INTEGER -> "BIGINT"
          [] k = TypeWord.REAL -> "DOUBLE"
          [] k = TypeWord.TEXT -> "TEXT"
          [] k = TypeWord.BLOB -> "BLOB"
          [] k = TypeWord.NUMERIC -> "DECIMAL(38,10)"
          [] OTHER -> "TINYINT(1)"]

\* run_oracle.py: type_mapping
oracle_type_mapping ==
    [k \in SqliteTypes |->
        CASE k = TypeWord.INTEGER -> "NUMBER(10)"
          [] k = TypeWord.TEXT -> "VARCHAR2(4000)"
          [] k = TypeWord.REAL -> "BINARY_DOUBLE"
          [] k = TypeWord.BLOB -> "BLOB"
          [] k = TypeWord.NUMERIC -> "NUMBER(10,2)"
          [] OTHER -> "NUMBER(1)"]

\* sqlite2sqlserver.py
translate_type(decl) ==
    IF decl.none THEN "NVARCHAR(MAX)"
    ELSE LET sqlite_type == UpperSeq(decl.text)
             has(w) == Contains(sqlite_type, TypeWord[w])
         IN
        IF has("INT") THEN "BIGINT"
        ELSE IF has("CHAR") \/ has("TEXT") \/ has("CLOB") THEN "NVARCHAR(MAX)"
        ELSE IF has("REAL") \/ has("FLOAT") \/ has("DOUBLE") THEN "FLOAT"
        ELSE IF has("BLOB") THEN "VARBINARY(MAX)"
        ELSE IF has("NUMERIC") THEN "DECIMAL(38, 9)"
        ELSE IF has("DATE") THEN "DATETIME2"
        ELSE "NVARCHAR(MAX)"

\* col_type = type_mapping.get(col[2].upper(), "TEXT") in run_mysql.py,
\* type_mapping.get(col[2].upper(), "VARCHAR2(4000)") in run_oracle.py,
\* translate_type(col[2]) in sqlite2sqlserver.py.
col_type(e, decl) ==
    CASE e = "mysql" -> get(mysql_type_mapping, UpperSeq(decl.text), "TEXT")
      [] e = "oracle" ->
            get(oracle_type_mapping, UpperSeq(decl.text), "VARCHAR2(4000)")
      [] OTHER -> translate_type(decl)

InitTypes ==
    /\ ExecIdle
    /\ RwIdle
    /\ ScIdle
    /\ MgIdle
    /\ QyIdle
    /\ NmIdle
    /\ LkIdle
    /\ ApiIdle
    /\ ty_engine \in MigEngines
    /\ ty_decl \in {Decl(FALSE, t) : t \in Concats(MaxTypeParts)}
                     \cup (IF ty_engine = "sqlserver"
                           THEN {Decl(TRUE, <<>>)} ELSE {})
    /\ ty_out = ""
    /\ ty_pc = "ready"

\* The column definition is built for one column.
MapType ==
    /\ ty_pc = "ready"
    /\ ty_out' = col_type(ty_engine, ty_decl)
    /\ ty_pc' = "done"
    /\ UNCHANGED <<exec_vars, conn_vars, rw_vars, sc_vars, mg_vars, qy_vars,
                   nm_vars, lk_vars, api_vars, ty_engine, ty_decl>>

NextTypes == MapType

SpecTypes == InitTypes /\ [][NextTypes]_vars

\* ------------------------------- the query workers, statement by statement
\* The statements a query text can be: a SELECT, DML on the first table with
\* or without a result set (RETURNING, OUTPUT), and DDL on it.
Statements == {"select", "insert", "delete", "insert_returning", "drop"}

IsDDL(stmt) == stmt = "drop"

\* What the statement does to the tables inside the session that runs it.
effect(ns, stmt) ==
    LET t == Tables[1] IN
    CASE stmt = "select" -> ns
      [] stmt \in {"insert", "insert_returning"} ->
            [ns EXCEPT ![t] = Table(@.rows \o <<"new">>)]
      [] stmt = "delete" -> [ns EXCEPT ![t] = Table(<<>>)]
      [] OTHER -> [ns EXCEPT ![t] = NoTable]

\* cursor.execute raises: the table is not there, or the engine has no
\* INSERT that gives a result set.
execute_raises(e, ns, stmt) ==
    \/ ~ns[Tables[1]].exists
    \/ stmt = "insert_returning" /\ e \in {"mysql", "oracle"}

\* cursor.description is set / fetchall has rows to give.
has_result_set(stmt) == stmt \in {"select", "insert_returning"}

\* The committed namespace after one query task, connection closed.
\* run_mysql: never commits, DDL commits by itself. run_oracle: commit() when
\* there is no result set; DDL commits by itself. run_sqlserver: never
\* commits, DDL included. run_postgres: commit() after fetchall, rollback()
\* when fetchall raises for want of a result set.
query_task(e, ns, stmt) ==
    IF execute_raises(e, ns, stmt) THEN ns
    ELSE CASE e = "mysql" -> IF IsDDL(stmt) THEN effect(ns, stmt) ELSE ns
           [] e = "oracle" ->
                 IF IsDDL(stmt) \/ ~has_result_set(stmt)
                 THEN effect(ns, stmt) ELSE ns
           [] e = "sqlserver" -> ns
           [] e \in {"sqlite", "duckdb"} -> effect(ns, stmt)
           [] OTHER -> IF has_result_set(stmt) THEN effect(ns, stmt) ELSE ns

\* What fetchall does when the statement gave no result set: the releases
\* of mysql.connector either raise InterfaceError or return the empty list.
Drivers == {"raises", "empty"}

\* fetchall raises for want of a result set: pymssql and psycopg2 always,
\* mysql.connector in the releases that do; sqlite3 and duckdb give a list.
fetchall_raises(e, stmt, driver) ==
    /\ ~has_result_set(stmt)
    /\ \/ e \in {"sqlserver", "postgres"}
       \/ e = "mysql" /\ driver = "raises"

\* The outcome of one query task: (status, data) of the worker's return
\* value, for run_duckdb and run_postgres the line that is recorded.
query_outcome(e, ns, stmt, driver) ==
    IF execute_raises(e, ns, stmt)
    THEN [status |-> "error", data |-> "engine error"]
    ELSE IF e = "oracle" /\ ~has_result_set(stmt)
    THEN [status |-> "success", data |-> "executed"]
    ELSE IF fetchall_raises(e, stmt, driver)
    THEN [status |-> "error", data |-> "no result set"]
    ELSE [status |-> "success",
          data |-> IF has_result_set(stmt) \/ (e = "duckdb" /\ ~IsDDL(stmt))
                   THEN "rows" ELSE "empty list"]

QueryEngines == {"mysql", "oracle", "sqlserver", "postgres", "sqlite", "duckdb"}

InitQuery ==
    /\ ExecIdle
    /\ RwIdle
    /\ ScIdle
    /\ MgIdle
    /\ TyIdle
    /\ NmIdle
    /\ LkIdle
    /\ ApiIdle
    /\ \E e \in QueryEngines, stmt \in Statements, driver \in Drivers :
       \E ns \in [TableNames -> {NoTable} \cup {Table(r) : r \in SourceRows}] :
           qy = [pc |-> "ready", engine |-> e, stmt |-> stmt, before |-> ns,
                 ns |-> ns, driver |-> driver, status |-> "-", data |-> "-"]

\* One query task runs against the namespace that migration produced.
RunQuery ==
    /\ qy.pc = "ready"
    /\ qy' = [qy EXCEPT
                !.pc = "done",
                !.ns = query_task(qy.engine, qy.ns, qy.stmt),
                !.status = query_outcome(qy.engine, qy.ns, qy.stmt, qy.driver).status,
                !.data = query_outcome(qy.engine, qy.ns, qy.stmt, qy.driver).data]
    /\ UNCHANGED <<exec_vars, conn_vars, rw_vars, sc_vars, mg_vars, ty_vars,
                   nm_vars, lk_vars, api_vars>>

NextQuery == RunQuery

SpecQuery == InitQuery /\ [][NextQuery]_vars

\* ------------------------------------------- the names of migrated tables
\* The engines whose migrator is given the db_id: a database (MySQL), a
\* schema (PostgreSQL) or a name prefix (Oracle) for each.
NameEngines == {"mysql", "oracle", "postgres"}

\* db_id values and table names of source databases.
NameDbIds == { <<"D", "b">>, <<"d", "b">>, <<"D", "b", "_", "x">> }
NameTables == { <<"T", "b">>, <<"t", "b">>, <<"x", "_", "T", "b">> }

\* An object of the target server: the database or schema that holds it
\* (none for the one schema of the Oracle user) and its name there.
Object(ns, name) == <<ns, name>>
NoObject == <<>>

\* A migrator that keeps the letter case of the source names.
created_as_written(eng, db_id, table_name) ==
    IF eng = "oracle" THEN Object(<<>>, db_id \o <<"_">> \o table_name)
    ELSE Object(db_id, table_name)

\* The object the migrator of the engine creates for a table of db_id; for
\* Oracle oracle_table = f"{db_id.upper()}_{table_name.upper()}".
created(eng, db_id, table_name) ==
    CASE eng = "mysql" -> Object(db_id, table_name)
      [] eng = "postgres" -> Object(LowerSeq(db_id), LowerSeq(table_name))
      [] OTHER -> Object(<<>>, UpperSeq(db_id) \o <<"_">> \o UpperSeq(table_name))

\* The objects the migrator of the engine removes before it creates the
\* table: every table of the database (MySQL), the schema with all it
\* holds (PostgreSQL), the table of that name (Oracle).
dropped(eng, catalog, db_id, table_name) ==
    IF eng = "oracle"
    THEN { o \in catalog : o.obj = created(eng, db_id, table_name) }
    ELSE { o \in catalog : o.obj[1] = created(eng, db_id, table_name)[1] }

\* One run of the migrator for the source database src = <<db_id, table>>.
migrate_names(eng, catalog, src) ==
    (catalog \ dropped(eng, catalog, src[1], src[2]))
    \cup { [obj |-> created(eng, src[1], src[2]), of |-> src] }

\* The ways a query writes a reference to a table: in any letter case,
\* bare or between quote characters.
Spellings(table_name) ==
    { q \o t \o q :
        t \in {table_name, UpperSeq(table_name), LowerSeq(table_name)},
        q \in {<<>>, <<DQ>>, <<BQ>>} }

\* One part of a name in a statement, read by the server from position j:
\* between double quotes as written, bare in the server's default case
\* (Oracle upper, PostgreSQL lower); anything else is no name.
NamePart(eng, s, j) ==
    IF j <= Len(s) /\ s[j] = DQ
    THEN IF WordEnd(s, j + 1) > j + 1 /\ WordEnd(s, j + 1) <= Len(s)
            /\ s[WordEnd(s, j + 1)] = DQ
         THEN [ok |-> TRUE, name |-> SubSeq(s, j + 1, WordEnd(s, j + 1) - 1),
               end |-> WordEnd(s, j + 1) + 1]
         ELSE [ok |-> FALSE, name |-> <<>>, end |-> j]
    ELSE IF WordEnd(s, j) > j
         THEN [ok |-> TRUE,
               name |-> IF eng = "oracle" THEN UpperSeq(SubSeq(s, j, WordEnd(s, j) - 1))
                        ELSE LowerSeq(SubSeq(s, j, WordEnd(s, j) - 1)),
               end |-> WordEnd(s, j)]
         ELSE [ok |-> FALSE, name |-> <<>>, end |-> j]

\* The object that the table reference after the leading FROM of the
\* statement s denotes on the server, NoObject when it is no name.
denoted(eng, s) ==
    LET p1 == NamePart(eng, s, SkipSpaces(s, Len(KwFROM) + 1))
        p2 == NamePart(eng, s, p1.end + 1)
    IN  IF ~p1.ok THEN NoObject
        ELSE IF p1.end <= Len(s) /\ s[p1.end] = "."
             THEN IF p2.ok /\ p2.end > Len(s) THEN Object(p1.name, p2.name)
                  ELSE NoObject
             ELSE IF p1.end > Len(s) THEN Object(<<>>, p1.name) ELSE NoObject

InitNames ==
    /\ ExecIdle
    /\ RwIdle
    /\ ScIdle
    /\ MgIdle
    /\ TyIdle
    /\ QyIdle
    /\ LkIdle
    /\ ApiIdle
    /\ \E e \in NameEngines, d1, d2 \in NameDbIds, t1, t2 \in NameTables :
         nm = [pc |-> "in", engine |-> e, a |-> <<d1, t1>>, b |-> <<d2, t2>>,
               catalog |-> {}, sql |-> <<>>, modified_sql |-> <<>>]

\* The migrator runs for the database of a and then for the database of b.
MigrateNames ==
    /\ nm.pc = "in"
    /\ nm' = [nm EXCEPT
                !.pc = "migrated",
                !.catalog = migrate_names(nm.engine,
                                migrate_names(nm.engine, nm.catalog, nm.a), nm.b)]
    /\ UNCHANGED <<exec_vars, conn_vars, rw_vars, sc_vars, mg_vars, ty_vars,
                   qy_vars, lk_vars, api_vars>>

\* A query on the table of b is rewritten for the db_id of b.
RewriteName ==
    /\ nm.pc = "migrated"
    /\ nm.engine \in RewriteEngines
    /\ \E ref \in Spellings(nm.b[2]) :
         nm' = [nm EXCEPT
                  !.pc = "rewritten",
                  !.sql = KwFROM \o <<" ">> \o ref,
                  !.modified_sql = rewrite(nm.engine, KwFROM \o <<" ">> \o ref,
                                           nm.b[1])]
    /\ UNCHANGED <<exec_vars, conn_vars, rw_vars, sc_vars, mg_vars, ty_vars,
                   qy_vars, lk_vars, api_vars>>

NextNames ==
    \/ MigrateNames
    \/ RewriteName

SpecNames == InitNames /\ [][NextNames]_vars

\* ------------------------------------------- run_sqlite: LIKE and GLOB
KwLIKE == <<"L", "I", "K", "E">>
KwGLOB == <<"G", "L", "O", "B">>

\* str.replace(old, new): the occurrences of old from left to right, not
\* overlapping, in the letter case of old.
RECURSIVE str_replace(_, _, _)
str_replace(s, old, new) ==
    IF Len(s) < Len(old) THEN s
    ELSE IF SubSeq(s, 1, Len(old)) = old
         THEN new \o str_replace(SubSeq(s, Len(old) + 1, Len(s)), old, new)
         ELSE <<s[1]>> \o str_replace(Tail(s), old, new)

\* execute_single_sql: the text that cursor.execute is given.
\*   if "LIKE" in sql.upper(): sql = sql.replace("LIKE", "GLOB").replace("%", "*")
executed_sql(sql) ==
    IF Contains(UpperSeq(sql), KwLIKE)
    THEN str_replace(str_replace(sql, KwLIKE, KwGLOB), <<"%">>, <<"*">>)
    ELSE sql

\* Pieces of query text; a query is up to MaxLexemes of them in a row.
LikeLexemes ==
    { KwLIKE,
      <<"l", "i", "k", "e">>,
      <<" ">>,
      <<"%">>,
      <<"a">> }

RECURSIVE LikeTexts(_)
LikeTexts(n) ==
    IF n = 0 THEN { <<>> }
    ELSE LikeTexts(n - 1) \cup { t \o l : t \in LikeTexts(n - 1), l \in LikeLexemes }

InitLike ==
    /\ ExecIdle
    /\ RwIdle
    /\ ScIdle
    /\ MgIdle
    /\ TyIdle
    /\ QyIdle
    /\ NmIdle
    /\ ApiIdle
    /\ \E sql \in LikeTexts(MaxLexemes) :
         lk = [pc |-> "in", sql |-> sql, executed |-> <<>>]

\* execute_single_sql reaches cursor.execute(sql).
ExecuteLike ==
    /\ lk.pc = "in"
    /\ lk' = [lk EXCEPT !.pc = "done", !.executed = executed_sql(lk.sql)]
    /\ UNCHANGED <<exec_vars, conn_vars, rw_vars, sc_vars, mg_vars, ty_vars,
                   qy_vars, nm_vars, api_vars>>

NextLike == ExecuteLike

SpecLike == InitLike /\ [][NextLike]_vars

\* --------------------------------------- API_generate_sql: send_api_request
\* The largest retry_limit of the model.
MaxRetryLimit == 4

LF == "\n"

\* What client.chat.completions.create gives to one call: a completion with
\* a text, a completion whose message has no content (content is None), or
\* an exception.
Completion(c) == [kind |-> "text", content |-> c]
NoContent == [kind |-> "no content", content |-> <<>>]
Raises == [kind |-> "raises", content |-> <<>>]

Responses ==
    { Completion(<<"q">>),
      Completion(<<" ", "q", LF, "r", LF>>),
      NoContent,
      Raises }

\* The try block reaches its return: create returned and content is a string.
call_succeeds(resp) == resp.kind = "text"

\* str.strip(): blanks and line ends at both ends removed.
RECURSIVE strip(_)
strip(t) ==
    IF t = <<>> THEN <<>>
    ELSE IF t[1] \in {" ", LF} THEN strip(Tail(t))
    ELSE IF t[Len(t)] \in {" ", LF} THEN strip(SubSeq(t, 1, Len(t) - 1))
    ELSE t

\* result = chat_completion.choices[0].message.content.strip().replace("\n", " ")
SqlResult(content) ==
    [kind |-> "sql", text |-> str_replace(strip(content), <<LF>>, <<" ">>), attempts |-> 0]

\* f"Error: API request failed after {retry_limit} attempts."
ErrorResult(retry_limit) == [kind |-> "error", text |-> <<>>, attempts |-> retry_limit]

\* A retry test that allows one attempt more.
should_retry_once_more(attempt, retry_limit) == attempt <= retry_limit

\* if attempt < retry_limit
should_retry(attempt, retry_limit) == attempt < retry_limit

ApiIndices == {"1", "2"}

\* main submits send_api_request(prompt, model, index, db_id): attempt is 1;
\* retry_limit is the parameter, 3 when left out.
InitApi ==
    /\ ExecIdle
    /\ RwIdle
    /\ ScIdle
    /\ MgIdle
    /\ TyIdle
    /\ QyIdle
    /\ NmIdle
    /\ LkIdle
    /\ \E i \in ApiIndices, d \in DbIds, r \in 1..MaxRetryLimit :
         api = [pc |-> "call", index |-> i, db_id |-> d, attempt |-> 1,
                retry_limit |-> r, outcomes |-> <<>>, slept |-> <<>>, ret |-> <<>>]

\* One activation of send_api_request: the call, and then the return of
\* the result, or time.sleep(attempt) and the next activation, or the
\* return of the error text.
ApiAttempt ==
    /\ api.pc = "call"
    /\ \E resp \in Responses :
         api' =
           IF call_succeeds(resp)
           THEN [api EXCEPT !.outcomes = Append(@, resp),
                            !.ret = <<api.index, SqlResult(resp.content), api.db_id>>,
                            !.pc = "returned"]
           ELSE IF should_retry(api.attempt, api.retry_limit)
           THEN [api EXCEPT !.outcomes = Append(@, resp),
                            !.slept = Append(@, api.attempt),
                            !.attempt = @ + 1]
           ELSE [api EXCEPT !.outcomes = Append(@, resp),
                            !.ret = <<api.index, ErrorResult(api.retry_limit), api.db_id>>,
                            !.pc = "returned"]
    /\ UNCHANGED <<exec_vars, conn_vars, rw_vars, sc_vars, mg_vars, ty_vars,
                   qy_vars, nm_vars, lk_vars>>

NextApi == ApiAttempt

SpecApi == InitApi /\ [][NextApi]_vars

\* The worker thread runs, and every call of create returns or raises.
FairSpecApi == SpecApi /\ WF_vars(NextApi)

\* ----------------------------------------------------- reading the output
DbOf(i) == (CHOOSE k \in 1..Len(questions) : questions[k].index = i)

TaskIndices == { questions[k].index : k \in 1..Len(questions) }

\* The lines of the form index<TAB>payload that carry index i.
RecLinesOf(i) ==
    { k \in 1..Len(output) : output[k].kind = "rec" /\ output[k].index = i }

\* A message that tells the reader the query ran out of time.
IsTimeoutMsg(m) ==
    \/ Contains(m, <<"timed", "out">>)
    \/ Contains(m, <<"time", "exceeded">>)

\* A message that refers to the failure of the migration.
RefersToMigration(m) ==
    \/ Contains(m, <<"failed", "to", "migrate">>)
    \/ Contains(m, <<"migration">>)

\* ------------------------------------------------------------------ claims

\* C1: once the output file is written it holds exactly one line per input
\* task: as many lines as tasks, and every input index on exactly one
\* index<TAB>payload line, whatever the outcomes of the tasks were.
C1_OneRecordPerTask ==
    written =>
        /\ Len(output) = Len(questions)
        /\ \A i \in TaskIndices : Cardinality(RecLinesOf(i)) = 1

\* C2: the lines of the written output file are in ascending order of index,
\* for every executor and every completion order.
C2_OutputAscending ==
    written =>
        \A a, b \in 1..Len(output) :
            a < b => output[a].index <= output[b].index

\* C3: when the migration of a db_id failed, no execution worker is started
\* for a task that references it, and in the written output every such task
\* is an error line that refers to the migration failure.
C3_FailedMigrationShortCircuits ==
    \A k \in 1..Len(questions) :
        migrated[questions[k].db] = "failed" =>
            /\ questions[k].index \notin started
            /\ written =>
                 \E n \in 1..Len(output) :
                    /\ output[n].index = questions[k].index
                    /\ output[n].error
                    /\ RefersToMigration(output[n].msg)

\* C4 (as stated): in the executors that migrate, no query is executed
\* before the migration of every distinct db_id of the batch has completed
\* or been marked failed.
C4_AllMigrationsBeforeAnyQuery ==
    (engine \in {"mysql", "oracle", "postgres"} /\ executed # {}) =>
        \A d \in BatchDbs(questions) : migrated[d] # "no"

\* C4 (amended): in the executors that migrate, a query is executed against
\* a db_id only after a migration of that db_id has completed successfully
\* in this run; in the MySQL and Oracle executors, moreover, the migration
\* of every distinct db_id of the batch has completed or been marked failed
\* before any query is executed.
C4_MigratedBeforeItsQuery ==
    engine \in {"mysql", "oracle", "postgres"} =>
        /\ \A i \in executed : migrated[questions[DbOf(i)].db] = "ok"
        /\ (engine \in {"mysql", "oracle"} /\ executed # {}) =>
               \A d \in BatchDbs(questions) : migrated[d] # "no"

\* A MySQL run with two databases whose queries are being executed.
C4_Witness ==
    /\ engine = "mysql"
    /\ Cardinality(BatchDbs(questions)) = 2
    /\ Cardinality(executed) = 2
    /\ \E d \in DbIds : migrated[d] = "ok"

\* C5: in the executors with a time budget (MySQL session timeout,
\* SQL Server func_timeout), a query that does not return within the budget
\* becomes an error line whose message tells of the timeout, no worker stays
\* blocked, and every other task of the batch is processed and keeps the
\* outcome of its own query.
C5_TimeoutIsolated ==
    engine \in {"mysql", "sqlserver"} =>
        /\ hung = {}
        /\ written =>
             \A i \in TaskIndices :
                \/ /\ engine = "mysql"
                   /\ questions[DbOf(i)].db \in failed_migrations
                   /\ behaved[i] = "none"
                \/ /\ behaved[i] # "none"
                   /\ \E n \in RecLinesOf(i) :
                        /\ behaved[i] = "slow" =>
                             output[n].error /\ IsTimeoutMsg(output[n].msg)
                        /\ behaved[i] = "rows" =>
                             ~output[n].error /\ output[n].msg = MsgRows
                        /\ behaved[i] = "error" =>
                             output[n].error /\ ~IsTimeoutMsg(output[n].msg)

\* A written batch with one timed-out query and one sibling that returned rows.
C5_Witness ==
    /\ engine \in {"mysql", "sqlserver"}
    /\ written
    /\ \E i, j \in TaskIndices : behaved[i] = "slow" /\ behaved[j] = "rows"

\* C6: every batch run ends: the output file is written (or, C7, the run has
\* aborted), even when a query never returns on its own.
C6_BatchCompletes == <>(pc \in {"done", "crashed"})

\* C7: a failure of one task never aborts the batch.
C7_TaskFailureNeverAborts == pc # "crashed"

\* ------------------------------------------------- reading a rewritten text
\* The references the pattern finds in the input text.
Matches == MatchesFrom(rw_engine, rw_sql, 1)

\* A reference is namespace-qualified when a '.' continues its identifier.
IsQualified(s, m) == m.end <= Len(s) /\ s[m.end] = "."

\* The replacement stated for a bare reference: keyword, one space, the
\* namespace and the identifier in the casing of the engine, between the
\* quote characters the reference had.
StatedReplacement(eng, m, db_id) ==
    CASE eng = "duckdb" ->
            m.keyword \o <<" ">> \o db_id \o <<".">> \o m.quote \o m.table \o m.quote2
      [] eng = "postgres" ->
            m.keyword \o <<" ">> \o LowerSeq(db_id) \o <<".">>
            \o m.quote \o LowerSeq(m.table) \o m.quote2
      [] OTHER ->
            m.keyword \o <<" ">> \o m.quote
            \o UpperSeq(db_id) \o <<"_">> \o UpperSeq(m.table) \o m.quote2

\* The input text with every reference replaced as stated.
RECURSIVE StatedSub(_, _, _, _)
StatedSub(eng, s, i, db_id) ==
    IF i > Len(s) THEN <<>>
    ELSE IF MatchAt(eng, s, i).ok
         THEN StatedReplacement(eng, MatchAt(eng, s, i), db_id)
              \o StatedSub(eng, s, MatchAt(eng, s, i).end, db_id)
         ELSE <<s[i]>> \o StatedSub(eng, s, i + 1, db_id)

\* C8: the rewriter is idempotent for each engine that has one: rewriting
\* the rewritten text again for the same db_id gives the rewritten text.
C8_RewriteIdempotent ==
    rw_pc = "twice" => rw_twice = rw_once

\* C9: a reference whose identifier is already namespace-qualified is left
\* unchanged: a text in which every keyword-identifier match is qualified
\* comes out of the rewriter as it went in.
C9_QualifiedLeftUnchanged ==
    (/\ rw_pc \in {"once", "twice"}
     /\ Matches # <<>>
     /\ \A k \in 1..Len(Matches) : IsQualified(rw_sql, Matches[k]))
    => rw_once = rw_sql

\* C10: a bare reference is replaced by keyword, space, namespace '.' (for
\* Oracle the upper-case NAMESPACE_IDENTIFIER) and the identifier, with
\* exactly the quote character, or none, that the reference had: a text
\* whose matches are all bare comes out with each match replaced so.
C10_BareReplacedKeepingQuotes ==
    (/\ rw_pc \in {"once", "twice"}
     /\ Matches # <<>>
     /\ \A k \in 1..Len(Matches) : ~IsQualified(rw_sql, Matches[k]))
    => rw_once = StatedSub(rw_engine, rw_sql, 1, rw_db)

\* ------------------------------------------- every reference of a query
\* The tables that follow a reference in a comma-separated list: j is the
\* position after a reference.
RECURSIVE ListRefsFrom(_, _)
ListRefsFrom(s, j) ==
    IF j <= Len(s) /\ s[j] = ","
    THEN IF WordEnd(s, SkipSpaces(s, j + 1)) > SkipSpaces(s, j + 1)
         THEN <<[quote |-> <<>>,
                 table |-> SubSeq(s, SkipSpaces(s, j + 1),
                                  WordEnd(s, SkipSpaces(s, j + 1)) - 1)]>>
              \o ListRefsFrom(s, WordEnd(s, SkipSpaces(s, j + 1)))
         ELSE <<>>
    ELSE <<>>

\* The bare references of the input text: the identifier after each
\* keyword, and after a FROM each further table of its list.
RECURSIVE BareRefsOf(_, _)
BareRefsOf(s, ms) ==
    IF ms = <<>> THEN <<>>
    ELSE (IF IsQualified(s, Head(ms)) THEN <<>>
          ELSE <<[quote |-> Head(ms).quote, table |-> Head(ms).table]>>
               \o (IF UpperSeq(Head(ms).keyword) = KwFROM
                   THEN ListRefsFrom(s, Head(ms).end) ELSE <<>>))
         \o BareRefsOf(s, Tail(ms))

BareRefs == BareRefsOf(rw_sql, Matches)

\* The name of a table in the namespace of db_id, as the engine's rewriter
\* writes it.
QualifiedName(eng, db_id, r) ==
    CASE eng = "duckdb" -> db_id \o <<".">> \o r.quote \o r.table \o r.quote
      [] eng = "postgres" ->
            LowerSeq(db_id) \o <<".">> \o r.quote \o LowerSeq(r.table) \o r.quote
      [] OTHER -> <<DQ>> \o UpperSeq(db_id) \o <<"_">> \o UpperSeq(r.table) \o <<DQ>>

\* C27: after the rewrite every bare table reference of the query is
\* qualified with the namespace of db_id, the tables of a comma-separated
\* FROM list and the JOIN operands included: the rewritten text holds the
\* qualified name of each of them.
C27_EveryReferenceQualified ==
    rw_pc \in {"once", "twice"}
    => \A k \in 1..Len(BareRefs) :
          Contains(rw_once, QualifiedName(rw_engine, rw_db, BareRefs[k]))

\* ------------------------------------------------------ reading the score
\* Two tuples that hold the same values, in whatever order.
IsPermutation(a, b) ==
    /\ Len(a) = Len(b)
    /\ \E f \in [1..Len(a) -> 1..Len(a)] :
         /\ \A j, k \in 1..Len(a) : f[j] = f[k] => j = k
         /\ \A k \in 1..Len(a) : a[k] = b[f[k]]

\* Two sets of tuples that are equal once each tuple is sorted.
SameRowSets(a, b) ==
    /\ \A t \in a : \E u \in b : IsPermutation(t, u)
    /\ \A u \in b : \E t \in a : IsPermutation(t, u)

C14_AccuracyOverGold ==
    sc_pc = "done" =>
        /\ total = Cardinality(Keys(gold_data))
        /\ match_count = Cardinality(sc_matched)
        /\ 0 <= match_count /\ match_count <= total
        /\ total > 0 => score.num * total = match_count * score.den
        /\ \A i \in Keys(gold_data) : pred_data[i] = NoEntry => i \notin sc_matched

\* A score of 1 / 2: one gold index matched, the other absent from the
\* predicted file.
C14_Witness ==
    /\ sc_pc = "done"
    /\ total = 2
    /\ match_count = 1
    /\ \E i \in Keys(gold_data) : pred_data[i] = NoEntry

\* The dictionary the line read last went into.
CurrentData == IF sc_pc = "gold" THEN gold_data ELSE pred_data

\* A line whose second field is no sequence of tuples.
Unparseable(line) == line.fields < 2 \/ literal_eval(line.field) # "items"

\* C15: a line whose result field cannot be parsed as a sequence of tuples
\* is kept: after it is read the dictionary holds the raw text of the field
\* under the line's index, the line is not dropped, and reading goes on.
C15_UnparseableKeptRaw ==
    (sc_n > 0 /\ Unparseable(sc_line)) =>
        /\ sc_pc # "raised"
        /\ sc_line.fields = 2
        /\ CurrentData[sc_line.index] = RawEntry(sc_line.field)

\* Two lists that hold the same rows: every row of one is a row of the
\* other, with its values in the same or in another order.
SameRows(f, g) ==
    /\ \A k \in 1..Len(f.items) : \E j \in 1..Len(g.items) :
           IsPermutation(f.items[k].vals, g.items[j].vals)
    /\ \A j \in 1..Len(g.items) : \E k \in 1..Len(f.items) :
           IsPermutation(f.items[k].vals, g.items[j].vals)

\* C11: scoring does not depend on the order of the rows nor on the order
\* of the values in a row: a gold entry and a predicted entry that hold the
\* same rows, in whatever order, are matched.
C11_OrderInsensitive ==
    (cmp_pc = "done" /\ SameRows(cmp_gold, cmp_pred)) => cmp_match

\* C32: the scorer is reflexive: a result file with one record, scored
\* against itself, has its record matched, whatever values its rows hold.
C32_ScorerReflexive ==
    (cmp_pc = "done" /\ cmp_gold = cmp_pred) => cmp_match

\* The number a scalar of NumberPool stands for.
NumberOf(f) == float(f.items[1].vals[1].text)

\* The multiple of 10^-8 nearest to a number, as integer part and fraction.
Nearest8(x) ==
    LET lo == x.fp - (x.fp % 10)
        g == IF x.fp - lo < 5 THEN lo ELSE lo + 10
    IN  <<x.ip + (g \div Scale), g % Scale>>

\* C12: two numbers, written as numbers or as strings, are judged equal iff
\* they are equal after rounding to 8 decimal places.
C12_EqualIffEqualAt8Decimals ==
    (cmp_pc = "done" /\ cmp_gold \in NumberFields /\ cmp_pred \in NumberFields)
    => (cmp_match <=> Nearest8(NumberOf(cmp_gold)) = Nearest8(NumberOf(cmp_pred)))

\* 3.000000001 against 3.000000002, judged equal.
C12_Witness ==
    /\ cmp_pc = "done"
    /\ cmp_gold = ListField(<<Tup(<<Num(<<"3", ".", "0", "0", "0", "0", "0", "0", "0", "0", "1">>)>>)>>)
    /\ cmp_pred = ListField(<<Tup(<<Num(<<"3", ".", "0", "0", "0", "0", "0", "0", "0", "0", "2">>)>>)>>)
    /\ cmp_match

\* C20: no two tasks that run at the same time, migrations or queries, use
\* the same engine connection: each worker invocation holds a connection of
\* its own, opened by that invocation.
C20_ConnectionPerTask ==
    \A w \in Workers :
        /\ conn[w] # NoConn => (running[w] # Idle /\ conn[w].by = running[w])
        /\ \A v \in Workers : (v # w /\ conn[w] # NoConn) => conn[v] # conn[w]

\* Two workers run tasks at the same time, each on a connection.
C20_Witness ==
    /\ engine \in {"mysql", "oracle", "sqlserver"}
    /\ \E w, v \in Workers :
         /\ w # v
         /\ running[w] # Idle /\ running[v] # Idle
         /\ conn[w] # NoConn /\ conn[v] # NoConn

\* ---------------------------------------------------- reading a migration
SourceTables == {t \in TableNames : mg_source[t].exists}

GoodRows(t) == SelectSeq(mg_source[t].rows, Accepted)

\* C16: running the migrator again for the same source, db_id and engine
\* leaves the namespace with the same tables and the same rows as the
\* first run did.
C16_MigrationIdempotent ==
    mg_runs >= 2 => mg_ns = mg_after1

\* A second run over a namespace that the first run filled with rows, some
\* of them rejected by the target.
C16_Witness ==
    /\ mg_runs >= 2
    /\ \E t \in TableNames : mg_after1[t].exists /\ mg_after1[t].rows # <<>>
    /\ \E t \in SourceTables : executemany_raises(mg_source[t].rows)
    /\ mg_after1 # mg_prior

\* C17: after a migration that succeeded, the namespace holds exactly the
\* tables of the current source, each rebuilt by this run; nothing that was
\* there before is left.
C17_CleanSlate ==
    (mg_runs >= 1 /\ mg_status # "error" /\ mg_failed = {}) =>
        \A t \in TableNames :
            /\ mg_ns[t].exists <=> mg_source[t].exists
            /\ mg_ns[t].exists => mg_ns[t].rows = mg_source[t].rows

\* C18: on every engine, a table whose bulk insert failed ends up with the
\* rows that are accepted one by one, and the migration is not reported
\* as failed.
C18_RowByRowFallback ==
    mg_runs >= 1 =>
        /\ \A t \in mg_failed : mg_ns[t] = Table(GoodRows(t))
        /\ mg_failed # {} => mg_status # "error"

\* ------------------------------------------------------ reading a column type
\* The types each mapping can name, and the text type it falls back to.
TargetTypes(e) ==
    CASE e = "mysql" -> {"BIGINT", "DOUBLE", "TEXT", "BLOB", "DECIMAL(38,10)",
                         "TINYINT(1)"}
      [] e = "oracle" -> {"NUMBER(10)", "VARCHAR2(4000)", "BINARY_DOUBLE", "BLOB",
                          "NUMBER(10,2)", "NUMBER(1)"}
      [] OTHER -> {"BIGINT", "NVARCHAR(MAX)", "FLOAT", "VARBINARY(MAX)",
                   "DECIMAL(38, 9)", "DATETIME2"}

PermissiveText(e) ==
    CASE e = "mysql" -> "TEXT"
      [] e = "oracle" -> "VARCHAR2(4000)"
      [] OTHER -> "NVARCHAR(MAX)"

\* A declared type the engine's mapping knows: one of its keys in any letter
\* case, or for SQL Server a type that holds one of its keywords.
Recognized(e, decl) ==
    /\ ~decl.none
    /\ IF e \in {"mysql", "oracle"}
       THEN UpperSeq(decl.text) \in SqliteTypes
       ELSE \E w \in {"INT", "CHAR", "TEXT", "CLOB", "REAL", "FLOAT", "DOUBLE",
                      "BLOB", "NUMERIC", "DATE"} :
                Contains(UpperSeq(decl.text), TypeWord[w])

\* C19: every declared type, the empty and the unknown ones included, maps
\* to a type of the target without raising, and a type that is not
\* recognized maps to the engine's text type.
C19_TypeMappingTotal ==
    ty_pc = "done" =>
        /\ ty_out \in TargetTypes(ty_engine)
        /\ ~Recognized(ty_engine, ty_decl) => ty_out = PermissiveText(ty_engine)

\* A type that the Oracle mapping does not know has been mapped.
C19_Witness ==
    /\ ty_pc = "done"
    /\ ty_engine = "oracle"
    /\ ty_decl.text # <<>>
    /\ ~Recognized(ty_engine, ty_decl)

\* ------------------------------------------------ reading the migration pool
\* The migration tasks of db_id d that exist: queued, running or finished.
MigrationTasksOf(d) ==
    Cardinality({k \in 1..Len(pending) : pending[k].db = d})
    + Cardinality({w \in Workers : running[w] # Idle /\ running[w].db = d})
    + Cardinality({k \in 1..Len(migration_results) : migration_results[k].db = d})

InFlight == Cardinality({w \in Workers : running[w] # Idle}) + Cardinality(orphans)

\* C25: in a pool phase the number of tasks in flight is at most the number
\* of workers the pool was started with.
C25_InFlightBounded ==
    pc \in {"migrate", "execute"} => InFlight <= Cardinality(SmallPool)

\* C26: a worker that has taken its next task has left no connection of a
\* timed-out task open, and none is open when the batch is written.
C26_TimedOutConnectionClosed ==
    /\ \A o \in orphans : running[o.worker] = Idle
    /\ written => orphans = {}

\* C21: whatever its text, a query task leaves the migrated namespace as
\* migration produced it.
C21_QueriesLeaveNamespace ==
    qy.pc = "done" => qy.ns = qy.before

\* ------------------------------------------------------ reading the names
\* The objects of the catalog that were created for the source database src.
ObjectsOf(src) == { o \in nm.catalog : o.of = src }

\* C28: the namespaces of distinct db_ids are disjoint: after both
\* migrations each database has its table on the server, under a name that
\* is not the name of the other's (db_ids that differ in letter case only,
\* and the Oracle prefix, included).
C28_NamespacesDisjoint ==
    (nm.pc \in {"migrated", "rewritten"} /\ nm.a[1] # nm.b[1])
    => /\ ObjectsOf(nm.a) # {}
       /\ ObjectsOf(nm.b) # {}
       /\ created(nm.engine, nm.a[1], nm.a[2]) # created(nm.engine, nm.b[1], nm.b[2])

\* The reference of the query is written between backticks.
InBackticks == Len(nm.sql) > Len(KwFROM) + 1 /\ nm.sql[Len(KwFROM) + 2] = BQ

\* C29: rewriter and migrator agree on names: the identifier the rewriter
\* writes for a reference to a table, in any letter case, bare or between
\* double quotes, denotes the object the migrator created for that table.
C29_RewriterAgreesWithMigrator ==
    (nm.pc = "rewritten" /\ ~InBackticks)
    => denoted(nm.engine, nm.modified_sql) = created(nm.engine, nm.b[1], nm.b[2])

\* C29 as stated, for every quoted reference the rewriters take: also a
\* reference between backticks denotes the created object once rewritten.
C29_AnyQuoteAgrees ==
    nm.pc = "rewritten"
    => denoted(nm.engine, nm.modified_sql) = created(nm.engine, nm.b[1], nm.b[2])

\* A double-quoted reference in mixed case was rewritten for PostgreSQL, and
\* an upper-case reference of a lower-case table for Oracle.
C29_Witness ==
    /\ nm.pc = "rewritten"
    /\ \/ /\ nm.engine = "postgres"
          /\ nm.sql = KwFROM \o <<" ", DQ, "T", "b", DQ>>
          /\ nm.b[2] = <<"T", "b">>
       \/ /\ nm.engine = "oracle"
          /\ nm.sql = KwFROM \o <<" ", "T", "B">>
          /\ nm.b[2] = <<"t", "b">>

\* C31: a statement that completes and returns no rows gives a success
\* outcome whose payload is the fixed marker, in every executor.
C31_NoRowsGivesExecutedMarker ==
    (/\ qy.pc = "done"
     /\ ~execute_raises(qy.engine, qy.before, qy.stmt)
     /\ ~has_result_set(qy.stmt))
    => qy.status = "success" /\ qy.data = "executed"

\* ------------------------------------------------ reading the API requests
\* What holds of send_api_request in every state: no more than retry_limit
\* calls; once returned, the index and db_id given, and either the result of
\* the first call that succeeded, which is the last call made, or, after
\* retry_limit failed calls, the error text.
ApiReturnsAsStated ==
    /\ Len(api.outcomes) <= api.retry_limit
    /\ api.pc = "returned" =>
         /\ api.ret[1] = api.index
         /\ api.ret[3] = api.db_id
         /\ \A k \in 1..(Len(api.outcomes) - 1) : ~call_succeeds(api.outcomes[k])
         /\ IF call_succeeds(api.outcomes[Len(api.outcomes)])
            THEN /\ api.ret[2].kind = "sql"
                 /\ api.ret[2] = SqlResult(api.outcomes[Len(api.outcomes)].content)
            ELSE /\ Len(api.outcomes) = api.retry_limit
                 /\ api.ret[2] = ErrorResult(api.retry_limit)

\* C34: send_api_request always terminates and never raises: it makes at
\* most retry_limit calls, returns (index, result, db_id) of the first call
\* that succeeds without a further call, and after retry_limit failed calls
\* returns (index, the error text with retry_limit, db_id).
C34_RequestReturns ==
    /\ [](api.pc # "off" => ApiReturnsAsStated)
    /\ <>(api.pc = "returned")

\* Two calls failed, the third gave a text, with retry_limit 3; and the
\* text had blanks and line ends to remove.
C34_Witness ==
    /\ api.pc = "returned"
    /\ api.retry_limit = 3
    /\ Len(api.outcomes) = 3
    /\ api.outcomes[3] = Completion(<<" ", "q", LF, "r", LF>>)
    /\ api.ret[2].text = <<"q", " ", "r">>

\* C35: the wait before the next attempt follows an exponential backoff:
\* the delays after the failed attempts 1, 2, 3, ... grow by a constant
\* factor above 1.
C35_BackoffExponential ==
    /\ \A k \in 1..(Len(api.slept) - 1) : api.slept[k + 1] > api.slept[k]
    /\ \A k \in 1..(Len(api.slept) - 2) :
         api.slept[k + 1] * api.slept[k + 1] = api.slept[k] * api.slept[k + 2]

\* -------------------------------------------------- reading the LIKE texts
\* The LIKE operator at position i: the word, in any letter case.
LikeOperatorAt(s, i) ==
    /\ KeywordAt(s, i, KwLIKE)
    /\ (i = 1 \/ ~IsWord(s[i - 1]))
    /\ (i + Len(KwLIKE) > Len(s) \/ ~IsWord(s[i + Len(KwLIKE)]))

HasLikeOperator(s) == \E i \in 1..Len(s) : LikeOperatorAt(s, i)

\* The text with every LIKE operator replaced by GLOB and every % by *.
RECURSIVE GlobFrom(_, _)
GlobFrom(s, i) ==
    IF i > Len(s) THEN <<>>
    ELSE IF LikeOperatorAt(s, i) THEN KwGLOB \o GlobFrom(s, i + Len(KwLIKE))
    ELSE <<IF s[i] = "%" THEN "*" ELSE s[i]>> \o GlobFrom(s, i + 1)

\* C33: in the SQLite executor a query that contains the LIKE operator, in
\* any letter case, is executed with every LIKE operator replaced by GLOB
\* and every % replaced by *; a query without the operator is executed as
\* it is.
C33_LikeBecomesGlob ==
    lk.pc = "done"
    => lk.executed = IF HasLikeOperator(lk.sql) THEN GlobFrom(lk.sql, 1) ELSE lk.sql

\* ------------------------------------------------ reading the lines of a task
\* The physical lines of the output file that belong to task i.
LinesOf(i) == {k \in 1..Len(output) : output[k].index = i}

\* C23: every task has exactly one physical line in the written file, of the
\* form index<TAB>payload; the payload is Error: <message> when the task
\* failed and the rows when it succeeded.
C23_OneLineInForm ==
    written =>
        \A i \in TaskIndices :
            /\ Cardinality(LinesOf(i)) = 1
            /\ \A k \in LinesOf(i) :
                 /\ output[k].kind = "rec"
                 /\ output[k].error <=> behaved[i] # "rows"

\* ----------------------------------------------- reading a killed migration
\* The tables that were loaded when the run was killed.
LoadedTables == {SourceOrder(mg_source)[j] : j \in 1..mg_cut}

\* C24: the tables loaded before a migration is killed stay committed with
\* their rows, and a re-run from that state ends where a migration that was
\* never killed ends.
C24_CommittedTableByTable ==
    /\ (mg_cut > 0 /\ mg_runs = 0) =>
          \A t \in LoadedTables : mg_ns[t] = mg_source[t]
    /\ (mg_cut > 0 /\ mg_runs = 1) =>
          mg_ns = migrate(mg_engine, mg_prior, mg_source).ns

\* C30: after the MySQL migration no table holds more rows than the source
\* has rows the target accepts: the fallback adds no row that the failed
\* bulk insert had left in the table.
C30_NoRowTwice ==
    (mg_engine = "mysql" /\ mg_runs >= 1) =>
        \A t \in SourceTables :
            /\ mg_ns[t].exists
            /\ Len(mg_ns[t].rows) <= Len(GoodRows(t))

\* The bulk insert went through a row before it failed, and the fallback
\* has run.
C30_Witness ==
    /\ mg_engine = "mysql"
    /\ mg_runs >= 1
    /\ \E t \in mg_failed :
         /\ rows_before_failure(mg_source[t].rows) # <<>>
         /\ mg_ns[t].rows # <<>>

====
